---- MODULE Spec2Model ----
(***************************************************************************)
(* The asynchronous webhook pipeline of github-app-saketh:                 *)
(*                                                                         *)
(*   WebhookHandler -> raw_webhook_events -> ConsumeRawEvents /            *)
(*   processRawEvent (SCM adapter) -> normalized_pr_events ->              *)
(*   ConsumeNormalizedEvents / DeliverEvent -> Platform BE (sink)          *)
(*                                                                         *)
(* Strings the code takes apart are sequences of tokens: a signature is a  *)
(* sequence of characters, an event name is split where the code tests a   *)
(* prefix ("pullrequest:" ++ rest, "pull_request." ++ action).             *)
(***************************************************************************)
EXTENDS Integers, Sequences, FiniteSets, TLC

\* ------------------------------------------------------------------ bounds
\* HTTP requests the gateway serves in one run of the pipeline.
MaxRequests == 2
\* Undecodable messages another publisher leaves on the broker's queues.
MaxForeign == 1
\* Process crashes (followed by the supervisor's restart).
MaxCrashes == 1

MaxClock == 2

\* --------------------------------------------------------------- constants
PlatformGitHub == "github"
PlatformBitbucket == "bitbucket"
PlatformUnknown == "unknown"

StatusOK == 200
StatusBadRequest == 400
StatusUnauthorized == 401
StatusInternalServerError == 500

\* "" : an absent header, an unset environment variable.
Empty == <<>>

None == [none |-> TRUE]

\* ----------------------------------------------------------- request data
\* A request body: raw bytes that either are no JSON at all or hold the
\* fields the adapters read (GitHub: action, pull_request.number; Bitbucket:
\* pullrequest.id, repository.full_name).
RepoFullName == "acme/app"

\* A webhook body that parses: the fields the adapters read (GitHub: action,
\* pull_request.number; Bitbucket: pullrequest.id; both: repository.full_name).
Body(action, number, id) ==
    [valid |-> TRUE, action |-> action, number |-> number, id |-> id, repo |-> RepoFullName]

BodyOpened == Body("opened", 42, 7)

BodyClosed == Body("closed", 42, 7)

BodyNoPR == Body("opened", 0, 0)

BodyGarbage == [valid |-> FALSE, action |-> "", number |-> 0, id |-> 0, repo |-> ""]

Bodies ==
    << BodyOpened, BodyClosed, BodyNoPR, BodyGarbage,
       Body("synchronize", 42, 7), Body("reopened", 42, 7), Body("edited", 42, 7),
       Body("synchronize", 0, 0), Body("reopened", 0, 0), Body("closed", 0, 0) >>

BodySet == {Bodies[i] : i \in 1..Len(Bodies)}

\* The bodies of the requests that exercise the gateway.
GatewayBodies == {BodyOpened, BodyClosed, BodyNoPR, BodyGarbage}

BodyIndex(b) == CHOOSE i \in 1..Len(Bodies) : Bodies[i] = b

\* The secrets WEBHOOK_SECRET may hold; Empty is "not set".
SecretKey == <<"k">>

SecretOther == <<"o">>

SecretIndex(s) == IF s = SecretKey THEN 1 ELSE IF s = SecretOther THEN 2 ELSE 0

HexDigits == <<"0", "1", "2", "3", "4", "5", "6", "7", "8", "9", "a", "b", "c", "d", "e", "f">>

\* hex.EncodeToString(hmac-sha256(secret, payload)): a lowercase hex string,
\* different for every (payload, secret) of the model.
HexHmac(payload, secret) ==
    LET n == (BodyIndex(payload) - 1) * 3 + SecretIndex(secret)
    IN <<HexDigits[(n \div 16) + 1], HexDigits[(n % 16) + 1]>>

Sha256Prefix == <<"s", "h", "a", "2", "5", "6", "=">>

HasPrefix(s, p) == Len(s) >= Len(p) /\ SubSeq(s, 1, Len(p)) = p

\* hmac.Equal: equal length and equal bytes.
HmacEqual(a, b) == a = b

VerifyStripTwice(payload, signature, secret) ==
    LET strip(x) == IF HasPrefix(x, Sha256Prefix)
                    THEN SubSeq(x, Len(Sha256Prefix) + 1, Len(x)) ELSE x
    IN HmacEqual(HexHmac(payload, secret), strip(strip(signature)))

VerifyNoStrip(payload, signature, secret) ==
    HmacEqual(HexHmac(payload, secret), signature)

VerifyAcceptAll(payload, signature, secret) == TRUE

\* verifyWebhookSignature
verifyWebhookSignature(payload, signature, secret) ==
    LET sig == IF HasPrefix(signature, Sha256Prefix)
               THEN SubSeq(signature, Len(Sha256Prefix) + 1, Len(signature))
               ELSE signature
    IN HmacEqual(HexHmac(payload, secret), sig)

\* Event names.
EvPullRequest == <<"pull_request">>
EvPush == <<"push">>
KeyCreated == <<"pullrequest:", "created">>
KeyUpdated == <<"pullrequest:", "updated">>
KeyFulfilled == <<"pullrequest:", "fulfilled">>
KeyRejected == <<"pullrequest:", "rejected">>
KeyComment == <<"pullrequest:", "comment_created">>
KeyRepoPush == <<"repo:", "push">>

DetectPlatformKeyFirst(h) ==
    IF h.bbKey # Empty THEN PlatformBitbucket
    ELSE IF h.ghEvent # Empty THEN PlatformGitHub
    ELSE PlatformUnknown

\* DetectPlatform
DetectPlatform(h) ==
    IF h.ghEvent # Empty THEN PlatformGitHub
    ELSE IF h.bbKey # Empty THEN PlatformBitbucket
    ELSE PlatformUnknown

\* NewGitHubAdapter / NewBitbucketAdapter: the credentials of the environment
\* decide; no network call is made.
NewSCMAdapterNoCheck(platform, env) ==
    IF platform \in {PlatformGitHub, PlatformBitbucket}
    THEN [err |-> FALSE, platform |-> platform]
    ELSE [err |-> TRUE, platform |-> PlatformUnknown]

NewSCMAdapterDefaultGitHub(platform, env) ==
    IF platform = PlatformBitbucket
    THEN IF env.bbCreds THEN [err |-> FALSE, platform |-> PlatformBitbucket]
                        ELSE [err |-> TRUE, platform |-> PlatformUnknown]
    ELSE [err |-> FALSE, platform |-> PlatformGitHub]

\* NewSCMAdapter: a switch on the platform; each constructor reads its two
\* environment variables and returns an error when one is empty. The
\* platform field is what the adapter's Platform() returns.
NewSCMAdapter(platform, env) ==
    IF platform = PlatformGitHub
    THEN IF env.ghCreds THEN [err |-> FALSE, platform |-> PlatformGitHub]
                        ELSE [err |-> TRUE, platform |-> PlatformUnknown]
    ELSE IF platform = PlatformBitbucket
    THEN IF env.bbCreds THEN [err |-> FALSE, platform |-> PlatformBitbucket]
                        ELSE [err |-> TRUE, platform |-> PlatformUnknown]
    ELSE [err |-> TRUE, platform |-> PlatformUnknown]

\* ------------------------------------------------------------- deadlines
\* The time limit, in seconds, each kind of outbound call is made with:
\* context.WithTimeout for a publish, http.Client.Timeout for the sink POST
\* and for the provider API (a zero Timeout is no limit).
PublishTimeout == 5

SinkTimeout == 10

ProviderTimeout == 0

\* A call made with this limit returns whatever the remote peer does.
Bounded(timeout) == timeout > 0

\* ---------------------------------------------------------- provider API
\* What the provider's file-list endpoint answers: a transport failure, or a
\* status code with a body that is a JSON array of files, a JSON error
\* object ({"message": ...}) or no JSON.
GitHubFiles ==
    << [filename |-> "a.go", status |-> "modified", additions |-> 10, deletions |-> 2,
        changes |-> 12, previous_filename |-> ""],
       [filename |-> "b.go", status |-> "removed", additions |-> 0, deletions |-> 5,
        changes |-> 5, previous_filename |-> ""],
       [filename |-> "d.go", status |-> "renamed", additions |-> 0, deletions |-> 0,
        changes |-> 0, previous_filename |-> "c.go"] >>

BitbucketFiles ==
    << [status |-> "modified", lines_added |-> 10, lines_removed |-> 2,
        new |-> "a.go", old |-> "a.go"],
       [status |-> "removed", lines_added |-> 0, lines_removed |-> 5,
        new |-> "", old |-> "b.go"],
       [status |-> "renamed", lines_added |-> 0, lines_removed |-> 0,
        new |-> "d.go", old |-> "c.go"] >>

RespUnreachable == [transport |-> FALSE, code |-> 0, kind |-> "none", files |-> <<>>]

RespGitHubFiles == [transport |-> TRUE, code |-> 200, kind |-> "array", files |-> GitHubFiles]

RespBitbucketFiles == [transport |-> TRUE, code |-> 200, kind |-> "object", files |-> BitbucketFiles]

RespNotFound == [transport |-> TRUE, code |-> 404, kind |-> "message", files |-> <<>>]

GitHubResponses == {RespGitHubFiles, RespNotFound, RespUnreachable}

\* One element of a provider's file list, any shape the JSON may have. The
\* status strings are the providers' own: GitHub reports added, removed,
\* modified, renamed, copied, changed, unchanged; Bitbucket's diffstat
\* reports added, removed, modified, renamed, and others for conflicts. An
\* absent "new" or "old" object is "".
GitHubStatuses ==
    {"added", "removed", "modified", "renamed", "copied", "changed", "unchanged"}

BitbucketStatuses ==
    {"added", "removed", "modified", "renamed", "RENAMED", "merge conflict"}

GitHubFileEntries ==
    [filename : {"d.go"}, status : GitHubStatuses, additions : {0, 10}, deletions : {0, 2},
     changes : {0, 10, 12}, previous_filename : {"", "c.go"}]

BitbucketFileEntries ==
    [status : BitbucketStatuses, lines_added : {0, 10}, lines_removed : {0, 2},
     new : {"", "d.go"}, old : {"", "c.go"}]

\* Every answer GetPRFiles is called with directly: those of the pipeline,
\* and a list of one element of any shape.
FileResponses(platform) ==
    IF platform = PlatformGitHub
    THEN GitHubResponses
         \cup {[transport |-> TRUE, code |-> 200, kind |-> "array", files |-> <<f>>] :
                 f \in GitHubFileEntries}
    ELSE {RespBitbucketFiles, RespNotFound, RespUnreachable}
         \cup {[transport |-> TRUE, code |-> 200, kind |-> "object", files |-> <<f>>] :
                 f \in BitbucketFileEntries}

BitbucketResponses == {RespBitbucketFiles, RespNotFound, RespUnreachable}

\* What GET /app/installations answers to getInstallationToken: no answer
\* (transport failure), a status other than 200, a body that is no JSON
\* array of objects, an empty array, an array whose first element has a
\* numeric "id", and one whose first element has none (or one of another
\* JSON type).
InstallationAnswers == {"unreachable", "status", "notjson", "empty", "id", "noid"}

\* What POST .../access_tokens answers: no answer, a status other than 201,
\* a body that does not decode, a token.
TokenAnswers == {"unreachable", "status", "notjson", "token"}

\* getInstallationToken: "error" is a non-nil error; "empty" is the empty
\* token with a nil error (a status other than the expected one returns the
\* nil err of client.Do; so does an empty installation list); "panic" is the
\* failed type assertion installations[0]["id"].(float64).
getInstallationToken(inst, tok) ==
    IF inst = "unreachable" THEN "error"
    ELSE IF inst = "status" THEN "empty"
    ELSE IF inst = "notjson" THEN "error"
    ELSE IF inst = "empty" THEN "empty"
    ELSE IF inst = "noid" THEN "panic"
    ELSE IF tok = "unreachable" THEN "error"
    ELSE IF tok = "status" THEN "empty"
    ELSE IF tok = "notjson" THEN "error"
    ELSE "token"

\* getPRChangedFiles: makeAuthenticatedRequest returns the body whatever the
\* status code; a body with a "message" key is an API error; anything that is
\* not a JSON array fails to parse.
getPRChangedFiles(resp) ==
    IF ~resp.transport THEN [err |-> TRUE, files |-> <<>>]
    ELSE IF resp.kind = "message" THEN [err |-> TRUE, files |-> <<>>]
    ELSE IF resp.kind # "array" THEN [err |-> TRUE, files |-> <<>>]
    ELSE [err |-> FALSE, files |-> resp.files]

\* GitHubAdapter.GetPRFiles: token(), then the fetched files copied field by
\* field.
GitHubGetPRFiles(tokenOK, resp) ==
    IF ~tokenOK THEN [err |-> TRUE, files |-> <<>>]
    ELSE LET raw == getPRChangedFiles(resp)
         IN IF raw.err THEN [err |-> TRUE, files |-> <<>>]
            ELSE [err |-> FALSE,
                  files |-> [i \in 1..Len(raw.files) |->
                      [Filename |-> raw.files[i].filename,
                       Status |-> raw.files[i].status,
                       Additions |-> raw.files[i].additions,
                       Deletions |-> raw.files[i].deletions,
                       Changes |-> raw.files[i].changes,
                       PreviousFilename |-> raw.files[i].previous_filename]]]

\* strings.ToLower on the status vocabulary of the model.
ToLower(s) ==
    CASE s = "ADDED" -> "added"
      [] s = "REMOVED" -> "removed"
      [] s = "MODIFIED" -> "modified"
      [] s = "RENAMED" -> "renamed"
      [] s = "Renamed" -> "renamed"
      [] s = "merge conflict" -> "merge conflict"
      [] s = "OPEN" -> "open"
      [] s = "MERGED" -> "merged"
      [] s = "DECLINED" -> "declined"
      [] OTHER -> s

\* mapBitbucketStatus
mapBitbucketStatus(status) ==
    LET s == ToLower(status)
    IN IF s \in {"added", "removed", "modified", "renamed"} THEN s ELSE "modified"

\* BitbucketAdapter.request + GetPRFiles
BitbucketGetPRFiles(resp) ==
    IF ~resp.transport THEN [err |-> TRUE, files |-> <<>>]
    ELSE IF resp.code >= 400 THEN [err |-> TRUE, files |-> <<>>]
    ELSE IF resp.kind \notin {"object", "message"} THEN [err |-> TRUE, files |-> <<>>]
    ELSE [err |-> FALSE,
          files |-> [i \in 1..Len(resp.files) |->
              [Filename |-> resp.files[i].new,
               Status |-> mapBitbucketStatus(resp.files[i].status),
               Additions |-> resp.files[i].lines_added,
               Deletions |-> resp.files[i].lines_removed,
               Changes |-> resp.files[i].lines_added + resp.files[i].lines_removed,
               PreviousFilename |->
                   IF resp.files[i].old # "" /\ ToLower(resp.files[i].status) = "renamed"
                   THEN resp.files[i].old ELSE ""]]]

\* What the provider's pull-request endpoint answers: no answer, or a status
\* with a body that is the pull request's JSON object ("pr"), a JSON error
\* object with a "message" ("message"), a JSON array, or no JSON ("text").
DetailResponses ==
    { [transport |-> FALSE, code |-> 0, kind |-> "none", number |-> 0],
      [transport |-> TRUE, code |-> 200, kind |-> "pr", number |-> 42],
      [transport |-> TRUE, code |-> 404, kind |-> "message", number |-> 0],
      [transport |-> TRUE, code |-> 401, kind |-> "message", number |-> 0],
      [transport |-> TRUE, code |-> 500, kind |-> "text", number |-> 0],
      [transport |-> TRUE, code |-> 200, kind |-> "text", number |-> 0],
      [transport |-> TRUE, code |-> 200, kind |-> "array", number |-> 0] }

NoPR == [Number |-> 0]

\* json.Unmarshal into a struct: any JSON object decodes, the fields it lacks
\* staying zero; an array or a text that is no JSON does not.
DecodesAsObject(resp) == resp.kind \in {"pr", "message"}

\* GitHubAdapter.GetPRDetails: token() (an empty token with a nil error goes
\* on), makeAuthenticatedRequest, which returns the body whatever the status
\* code, then json.Unmarshal into ghPRResponse.
GitHubGetPRDetails(tok, resp) ==
    IF tok = "error" THEN [err |-> TRUE, pr |-> NoPR]
    ELSE IF ~resp.transport THEN [err |-> TRUE, pr |-> NoPR]
    ELSE IF ~DecodesAsObject(resp) THEN [err |-> TRUE, pr |-> NoPR]
    ELSE [err |-> FALSE, pr |-> [Number |-> resp.number]]

\* BitbucketAdapter.GetPRDetails: request() fails on a transport error and on
\* a status of 400 or more, then json.Unmarshal into bbPRResponse.
BitbucketGetPRDetails(resp) ==
    IF ~resp.transport THEN [err |-> TRUE, pr |-> NoPR]
    ELSE IF resp.code >= 400 THEN [err |-> TRUE, pr |-> NoPR]
    ELSE IF ~DecodesAsObject(resp) THEN [err |-> TRUE, pr |-> NoPR]
    ELSE [err |-> FALSE, pr |-> [Number |-> resp.number]]

\* adapter.GetPRDetails
GetPRDetails(platform, tok, resp) ==
    IF platform = PlatformGitHub THEN GitHubGetPRDetails(tok, resp)
    ELSE BitbucketGetPRDetails(resp)

\* ------------------------------------------------------------- adapters
EnrichNever(action) == FALSE

EnrichAlways(action) == TRUE

\* isFileEnrichableAction
isFileEnrichableAction(action) == action \in {"opened", "synchronize", "reopened"}

\* mapBitbucketEventKey
mapBitbucketEventKeyMergeUpdates(key) ==
    CASE key = KeyCreated -> [eventType |-> <<"pull_request.", "opened">>, action |-> "opened"]
      [] key \in {KeyUpdated, KeyFulfilled} ->
            [eventType |-> <<"pull_request.", "updated">>, action |-> "synchronize"]
      [] key = KeyRejected -> [eventType |-> <<"pull_request.", "closed">>, action |-> "closed"]
      [] OTHER -> [eventType |-> <<"pull_request.", "unknown">>, action |-> "unknown"]

\* mapBitbucketEventKey: the switch on the X-Event-Key value.
mapBitbucketEventKey(key) ==
    CASE key = KeyCreated -> [eventType |-> <<"pull_request.", "opened">>, action |-> "opened"]
      [] key = KeyUpdated -> [eventType |-> <<"pull_request.", "updated">>, action |-> "synchronize"]
      [] key = KeyFulfilled -> [eventType |-> <<"pull_request.", "closed">>, action |-> "closed"]
      [] key = KeyRejected -> [eventType |-> <<"pull_request.", "closed">>, action |-> "closed"]
      [] OTHER -> [eventType |-> <<"pull_request.", "unknown">>, action |-> "unknown"]

NoEvent ==
    [Platform |-> PlatformUnknown, EventType |-> Empty, Action |-> "",
     PR |-> [Number |-> 0], Repository |-> [FullName |-> ""], Files |-> <<>>,
     RawPayload |-> BodyGarbage]

GitHubNormalizeReencoded(eventType, payload) ==
    IF ~payload.valid THEN [err |-> TRUE, event |-> NoEvent, fetch |-> FALSE]
    ELSE [err |-> FALSE,
          event |-> [Platform |-> PlatformGitHub,
                     EventType |-> <<"pull_request.", payload.action>>,
                     Action |-> payload.action,
                     PR |-> [Number |-> payload.number],
                     Repository |-> [FullName |-> payload.repo],
                     Files |-> <<>>,
                     RawPayload |-> [payload EXCEPT !.id = 0]],
          fetch |-> payload.number # 0 /\ isFileEnrichableAction(payload.action)]

\* GitHubAdapter.NormalizeEvent up to the enrichment call: the parse, the
\* event built from the payload, and whether GetPRFiles is to be called.
GitHubNormalize(eventType, payload) ==
    IF ~payload.valid THEN [err |-> TRUE, event |-> NoEvent, fetch |-> FALSE]
    ELSE [err |-> FALSE,
          event |-> [Platform |-> PlatformGitHub,
                     EventType |-> <<"pull_request.", payload.action>>,
                     Action |-> payload.action,
                     PR |-> [Number |-> payload.number],
                     Repository |-> [FullName |-> payload.repo],
                     Files |-> <<>>,
                     RawPayload |-> payload],
          fetch |-> payload.number # 0 /\ isFileEnrichableAction(payload.action)]

BitbucketEnrichable(action) == action \in {"opened", "synchronize"}

\* BitbucketAdapter.NormalizeEvent up to the enrichment call.
BitbucketNormalize(eventType, payload) ==
    IF ~payload.valid THEN [err |-> TRUE, event |-> NoEvent, fetch |-> FALSE]
    ELSE LET m == mapBitbucketEventKey(eventType)
         IN [err |-> FALSE,
             event |-> [Platform |-> PlatformBitbucket,
                        EventType |-> m.eventType,
                        Action |-> m.action,
                        PR |-> [Number |-> payload.id],
                        Repository |-> [FullName |-> payload.repo],
                        Files |-> <<>>,
                        RawPayload |-> payload],
             fetch |-> payload.id # 0 /\ BitbucketEnrichable(m.action)]

NormalizeEventSwapped(platform, eventType, payload) ==
    IF platform = PlatformGitHub THEN BitbucketNormalize(eventType, payload)
    ELSE GitHubNormalize(eventType, payload)

\* adapter.NormalizeEvent, dispatched on the adapter NewSCMAdapter built.
NormalizeEvent(platform, eventType, payload) ==
    IF platform = PlatformGitHub THEN GitHubNormalize(eventType, payload)
    ELSE BitbucketNormalize(eventType, payload)

\* adapter.GetPRFiles as NormalizeEvent calls it.
GetPRFiles(platform, tokenOK, resp) ==
    IF platform = PlatformGitHub THEN GitHubGetPRFiles(tokenOK, resp)
    ELSE BitbucketGetPRFiles(resp)

ProviderResponses(platform) ==
    IF platform = PlatformGitHub THEN GitHubResponses ELSE BitbucketResponses

WithFilesOrNone(event, f) ==
    IF f.err THEN [event EXCEPT !.PR = NoEvent.PR, !.Repository = NoEvent.Repository]
    ELSE [event EXCEPT !.Files = f.files]

\* NormalizeEvent after GetPRFiles returned f: an error is logged and the
\* event keeps its empty file list; otherwise event.Files = files.
WithFiles(event, f) == IF f.err THEN event ELSE [event EXCEPT !.Files = f.files]

AfterFetchFailFast(f) == IF f.err THEN "handled" ELSE "lock"

\* processRawEvent after NormalizeEvent returned: err is nil whatever
\* GetPRFiles answered, and the publish is next.
AfterFetch(f) == "lock"

\* adapter.NormalizeEvent as a whole, GetPRFiles answering resp when it is
\* called: the error and the event returned.
NormalizeEventWhole(platform, eventType, payload, tokenOK, resp) ==
    LET n == NormalizeEvent(platform, eventType, payload)
    IN IF n.err THEN [err |-> TRUE, event |-> NoEvent]
       ELSE IF ~n.fetch THEN [err |-> FALSE, event |-> n.event]
       ELSE [err |-> FALSE,
             event |-> WithFiles(n.event, GetPRFiles(platform, tokenOK, resp))]

\* ------------------------------------------------------- JSON on the wire
\* encoding/json writes a []byte as base64 text and reads it back.
Base64Encode(bytes) == <<"base64", bytes>>

Base64Decode(text) == text[2]

\* Bytes on a queue that are not JSON of either message type.
Garbage == [fmt |-> "garbage"]

\* json.Marshal(RawWebhookMessage)
MarshalRaw(msg) ==
    [fmt |-> "json",
     platform |-> msg.Platform,
     event_type |-> msg.EventType,
     payload |-> Base64Encode(msg.Payload)]

\* json.Unmarshal(d.Body, &msg) in ConsumeRawEvents
UnmarshalRaw(bytes) ==
    IF bytes.fmt # "json"
    THEN [err |-> TRUE, msg |-> [Platform |-> PlatformUnknown, EventType |-> Empty,
                                  Payload |-> BodyGarbage]]
    ELSE [err |-> FALSE,
          msg |-> [Platform |-> bytes.platform,
                   EventType |-> bytes.event_type,
                   Payload |-> Base64Decode(bytes.payload)]]

\* json.Marshal(NormalizedEvent)
MarshalEvent(event) ==
    [fmt |-> "json",
     Platform |-> event.Platform,
     EventType |-> event.EventType,
     Action |-> event.Action,
     PR |-> event.PR,
     Repository |-> event.Repository,
     Files |-> event.Files,
     RawPayload |-> Base64Encode(event.RawPayload)]

\* json.Unmarshal(d.Body, &event) in ConsumeNormalizedEvents
UnmarshalEvent(bytes) ==
    IF bytes.fmt # "json"
    THEN [err |-> TRUE, event |-> NoEvent]
    ELSE [err |-> FALSE,
          event |-> [Platform |-> bytes.Platform,
                     EventType |-> bytes.EventType,
                     Action |-> bytes.Action,
                     PR |-> bytes.PR,
                     Repository |-> bytes.Repository,
                     Files |-> bytes.Files,
                     RawPayload |-> Base64Decode(bytes.RawPayload)]]

\* ------------------------------------------------------------ environment
\* The process environment main and the handlers read: whether NewRabbitMQ
\* connected (mq # nil), WEBHOOK_SECRET, PLATFORM_BE_URL, and the provider
\* credentials.
EnvFull == [mqUp |-> TRUE, secret |-> SecretKey, sink |-> TRUE, ghCreds |-> TRUE, bbCreds |-> TRUE]

Envs ==
    { EnvFull,
      [EnvFull EXCEPT !.sink = FALSE],
      [EnvFull EXCEPT !.ghCreds = FALSE],
      [EnvFull EXCEPT !.bbCreds = FALSE],
      [EnvFull EXCEPT !.mqUp = FALSE],
      [EnvFull EXCEPT !.secret = Empty] }

\* ------------------------------------------------------------- requests
GoodSig(body) == Sha256Prefix \o HexHmac(body, SecretKey)

BareSig(body) == HexHmac(body, SecretKey)

BadSig == Sha256Prefix \o <<"f", "f">>

WrongKeySig(body) == Sha256Prefix \o HexHmac(body, SecretOther)

DoublePrefixSig(body) == Sha256Prefix \o GoodSig(body)

Request(body, readOK, sig256, sig, ghEvent, bbKey) ==
    [body |-> body, readOK |-> readOK, sig256 |-> sig256, sig |-> sig,
     ghEvent |-> ghEvent, bbKey |-> bbKey]

NoRequest == Request(BodyGarbage, FALSE, Empty, Empty, Empty, Empty)

\* Every request of the model: any body, any combination of the four headers
\* the handler reads.
Sig256Choices(b) ==
    {Empty, BadSig, GoodSig(b), BareSig(b), WrongKeySig(b), DoublePrefixSig(b)}

SigChoices(b) == {Empty, BadSig, GoodSig(b)}

AllRequests ==
    UNION { { Request(b, ok, s256, s, gh, bb) :
                ok \in BOOLEAN,
                s256 \in Sig256Choices(b),
                s \in SigChoices(b),
                gh \in {Empty, EvPullRequest, EvPush},
                bb \in {Empty, KeyCreated, KeyComment, KeyRepoPush} } : b \in GatewayBodies }

GitHubRequest(body, event) == Request(body, TRUE, GoodSig(body), Empty, event, Empty)

BitbucketRequest(body, key) == Request(body, TRUE, Empty, GoodSig(body), Empty, key)

\* The requests that drive the pipeline behind the gateway.
PipelineRequests ==
    { GitHubRequest(BodyOpened, EvPullRequest),
      GitHubRequest(BodyClosed, EvPullRequest),
      GitHubRequest(BodyNoPR, EvPullRequest),
      GitHubRequest(BodyGarbage, EvPullRequest),
      GitHubRequest(BodyOpened, EvPush),
      BitbucketRequest(BodyOpened, KeyCreated),
      BitbucketRequest(BodyClosed, KeyFulfilled),
      BitbucketRequest(BodyNoPR, KeyCreated),
      BitbucketRequest(BodyOpened, KeyComment),
      Request(BodyOpened, TRUE, BadSig, Empty, EvPullRequest, Empty) }

\* Validly signed pull-request webhooks of every body and event key the
\* adapters tell apart.
AdapterRequests ==
    {GitHubRequest(b, EvPullRequest) : b \in BodySet}
    \cup {BitbucketRequest(b, k) :
            b \in {BodyOpened, BodyNoPR, BodyGarbage},
            k \in {KeyCreated, KeyUpdated, KeyFulfilled, KeyRejected, KeyComment}}

\* The requests of the runs in which the process may crash.
CrashRequests ==
    { GitHubRequest(BodyOpened, EvPullRequest),
      GitHubRequest(BodyGarbage, EvPullRequest),
      GitHubRequest(BodyOpened, EvPush),
      BitbucketRequest(BodyClosed, KeyFulfilled) }

\* ------------------------------------------------------------------ state
VARIABLES
    env,          \* the process environment (fixed for a run)
    req,          \* per HTTP request: the request, the handler's position, the response
    publishMu,    \* RabbitMQ.publishMu: Free or its holder
    rawQ,         \* broker queue raw_webhook_events (ready messages, FIFO)
    normQ,        \* broker queue normalized_pr_events
    rawUnacked,   \* the raw delivery handed to the consumer and not yet settled
    normUnacked,  \* the normalized delivery handed to the consumer and not yet settled
    nc,           \* the goroutine of StartConsumer (ConsumeRawEvents + processRawEvent)
    dc,           \* the goroutine of StartEventBusConsumer
    hist,         \* per broker message (by tag): what happened to it
    foreign,      \* undecodable messages published so far
    crashes,      \* process crashes so far
    call          \* the last direct call of a function of the program, with its result

vars ==
    <<env, req, publishMu, rawQ, normQ, rawUnacked, normUnacked, nc, dc, hist, foreign,
      crashes, call>>

Requests == 1..MaxRequests

\* Broker messages are told apart by a tag: the request that caused a raw
\* message, the raw message and handler invocation that caused a normalized
\* one, a serial number for another publisher's.
RawTag(r) == <<"raw", r, 0>>

NormTag(rawTag, k) == <<"norm", rawTag[2], k>>

ForeignTag(i) == <<"foreign", i, 0>>

Tags ==
    {RawTag(r) : r \in Requests}
    \cup {NormTag(RawTag(r), k) : r \in Requests, k \in 1..(MaxCrashes + 1)}
    \cup {ForeignTag(i) : i \in 1..MaxForeign}

Free == <<"free", 0>>

IdleRequest ==
    [pc |-> "idle", in |-> NoRequest, status |-> 0, sent |-> FALSE, log |-> "", attempts |-> 0]

NoTag == <<"none", 0, 0>>

NcWait == [pc |-> "wait", tag |-> NoTag, platform |-> PlatformUnknown, event |-> NoEvent, log |-> ""]

DcWait == [pc |-> "wait", tag |-> NoTag, event |-> NoEvent, log |-> ""]

\* A message the broker accepted: the queue, where it came from (the request
\* or the raw message; 0 for another publisher's), and counters of what the
\* consumers did with it.
NewHist(q, bytes) ==
    [q |-> q, bytes |-> bytes, delivered |-> 0, invoked |-> 0, returned |-> 0,
     settle |-> "open", fetches |-> 0, fetchErrs |-> 0, pubs |-> 0, posts |-> 0,
     log |-> ""]

\* A tag no message carries yet.
Absent == [NewHist("none", Garbage) EXCEPT !.settle = "absent"]

NoCall == [fn |-> "none"]

Init ==
    /\ env \in Envs
    /\ req = [r \in Requests |-> IdleRequest]
    /\ publishMu = Free
    /\ rawQ = <<>>
    /\ normQ = <<>>
    /\ rawUnacked = None
    /\ normUnacked = None
    /\ nc = NcWait
    /\ dc = DcWait
    /\ hist = [t \in Tags |-> Absent]
    /\ foreign = 0
    /\ crashes = 0
    /\ call = NoCall

\* ------------------------------------------------------- Webhook Gateway
IsPREventAny(eventType) == eventType # Empty

IsPREventMappedKeys(eventType) ==
    eventType \in {EvPullRequest, KeyCreated, KeyUpdated, KeyFulfilled, KeyRejected}

\* isPREvent in WebhookHandler
IsPREvent(eventType) ==
    eventType = EvPullRequest \/ HasPrefix(eventType, <<"pullrequest:">>)

SignatureHeaderLegacyFirst(in) == IF in.sig # Empty THEN in.sig ELSE in.sig256

\* WebhookHandler: X-Hub-Signature-256, or X-Hub-Signature when that is empty.
SignatureHeader(in) == IF in.sig256 # Empty THEN in.sig256 ELSE in.sig

\* WebhookHandler from the read of the body to the point where it either
\* returns or calls mq.PublishRawEvent: the status it writes, what it logs,
\* and the message it is about to publish.
WebhookRespond(in, e) ==
    LET noMsg == [Platform |-> PlatformUnknown, EventType |-> Empty, Payload |-> BodyGarbage]
        stop(status, log) == [status |-> status, next |-> "return", log |-> log, msg |-> noMsg]
        signature == SignatureHeader(in)
        platform == DetectPlatform(in)
        eventType == IF platform = PlatformBitbucket THEN in.bbKey ELSE in.ghEvent
    IN IF ~in.readOK THEN stop(StatusInternalServerError, "cannot read body")
       ELSE IF e.secret = Empty THEN stop(StatusInternalServerError, "secret not configured")
       ELSE IF signature = Empty THEN stop(StatusBadRequest, "signature missing")
       ELSE IF ~verifyWebhookSignature(in.body, signature, e.secret)
            THEN stop(StatusUnauthorized, "invalid signature")
       ELSE IF ~IsPREvent(eventType) THEN stop(StatusOK, "skipping non-PR event")
       ELSE IF ~e.mqUp THEN stop(StatusOK, "mq nil, raw event dropped")
       ELSE [status |-> StatusOK, next |-> "publish", log |-> "",
             msg |-> [Platform |-> platform, EventType |-> eventType, Payload |-> in.body]]

\* net/http hands the handler a buffered ResponseWriter: the status line and
\* the 8-byte body "received" written by w.WriteHeader / w.Write stay in the
\* buffer until the handler calls Flush (it never does) or returns.
ResponseSent(pcAfter) == pcAfter = "done"

\* http.ListenAndServe is serving: the process has not exited.
Serving == nc.pc # "exited"

\* WebhookHandler, lines 39-101, for request r carrying `in`.
WebhookHandlerStart(r, in) ==
    /\ Serving
    /\ req[r].pc = "idle"
    /\ \A q \in 1..(r - 1) : req[q].pc # "idle"
    /\ LET o == WebhookRespond(in, env)
           pcAfter == IF o.next = "publish" THEN "lock" ELSE "done"
       IN req' = [req EXCEPT ![r] = [pc |-> pcAfter, in |-> in, status |-> o.status,
                                     sent |-> ResponseSent(pcAfter), log |-> o.log,
                                     attempts |-> 0]]
    /\ UNCHANGED <<call, env, publishMu, rawQ, normQ, rawUnacked, normUnacked, nc, dc, hist,
                   foreign, crashes>>

EnqueueFront(q, m) == <<m>> \o q

\* PublishWithContext on the default exchange with the queue's name as
\* routing key: the broker puts the message behind the ready ones.
Enqueue(q, m) == Append(q, m)

LockGrantedWhenSinkIdle(mu) == mu = Free /\ dc.pc # "post"

LockNoWait(mu) == TRUE

\* sync.Mutex.Lock returns once the mutex is unlocked.
LockGranted(mu) == mu = Free

UnlockOnSuccess(mu, ok) == IF ok THEN Free ELSE mu

\* defer mq.publishMu.Unlock(): runs however PublishWithContext returned.
Unlock(mu, ok) == Free

\* PublishRawEvent: mq.publishMu.Lock()
PublishRawLock(r) ==
    /\ req[r].pc = "lock"
    /\ LockGranted(publishMu)
    /\ publishMu' = <<"http", r>>
    /\ req' = [req EXCEPT ![r].pc = "publishing", ![r].attempts = @ + 1]
    /\ UNCHANGED <<call, env, rawQ, normQ, rawUnacked, normUnacked, nc, dc, hist, foreign, crashes>>

\* PublishRawEvent from the return of PublishWithContext (ok, or a timeout
\* or transport error) on: the deferred Unlock runs, WebhookHandler logs and
\* goes to failPc when the publish failed.
PublishRawReturn(r, failPc) ==
    /\ req[r].pc = "publishing"
    /\ publishMu = <<"http", r>>
    /\ \E ok \in BOOLEAN :
          LET bytes == MarshalRaw(WebhookRespond(req[r].in, env).msg)
              pcAfter == IF ok THEN "done" ELSE failPc
          IN /\ rawQ' = IF ok THEN Enqueue(rawQ, [tag |-> RawTag(r), bytes |-> bytes])
                              ELSE rawQ
             /\ hist' = IF ok THEN [hist EXCEPT ![RawTag(r)] = NewHist("raw", bytes)]
                              ELSE hist
             /\ req' = [req EXCEPT ![r].pc = pcAfter,
                                   ![r].sent = ResponseSent(pcAfter),
                                   ![r].log = IF ok THEN "published raw event"
                                                    ELSE "could not publish raw event"]
             /\ publishMu' = Unlock(publishMu, ok)
    /\ UNCHANGED <<call, env, normQ, rawUnacked, normUnacked, nc, dc, foreign, crashes>>

PublishRawDoneRetry(r) == PublishRawReturn(r, "lock")

\* WebhookHandler: mq.PublishRawEvent returns; an error is logged and the
\* handler returns.
PublishRawDone(r) == PublishRawReturn(r, "done")

\* --------------------------------------------------- Normalization Consumer
\* processRawEvent from its entry to its first blocking call (the provider
\* API or the publish lock) or its return.
ProcessRawStart(msg, e) ==
    LET a == NewSCMAdapter(msg.Platform, e)
        n == NormalizeEvent(a.platform, msg.EventType, msg.Payload)
    IN IF a.err THEN [pc |-> "handled", platform |-> PlatformUnknown, event |-> NoEvent,
                      log |-> "could not create adapter"]
       ELSE IF n.err THEN [pc |-> "handled", platform |-> a.platform, event |-> NoEvent,
                           log |-> "could not normalize event"]
       ELSE [pc |-> IF n.fetch THEN "fetch" ELSE "lock", platform |-> a.platform,
             event |-> n.event, log |-> ""]

ReadyForNextAlways(c, unacked) == TRUE

\* for d := range deliveries: the loop of goroutine c is back at the channel
\* receive, its previous delivery settled.
ReadyForNext(c, unacked) == c.pc = "wait" /\ unacked = None

\* ConsumeRawEvents: the next delivery does not decode: d.Nack(false, requeue)
\* and continue.
RawPoison(requeue) ==
    /\ env.mqUp
    /\ ReadyForNext(nc, rawUnacked)
    /\ rawQ # <<>>
    /\ UnmarshalRaw(Head(rawQ).bytes).err
    /\ rawQ' = IF requeue THEN rawQ ELSE Tail(rawQ)
    /\ hist' = [hist EXCEPT ![Head(rawQ).tag].delivered = @ + 1,
                            ![Head(rawQ).tag].settle = IF requeue THEN @ ELSE "nack"]
    /\ UNCHANGED <<call, env, req, publishMu, normQ, rawUnacked, normUnacked, nc, dc, foreign,
                   crashes>>

ConsumeRawPoisonRequeue == RawPoison(TRUE)

\* d.Nack(false, false): requeue is off.
ConsumeRawPoison == RawPoison(FALSE)

\* ConsumeRawEvents: the next delivery decodes and handler(msg) is called.
ConsumeRawHandle ==
    /\ env.mqUp
    /\ ReadyForNext(nc, rawUnacked)
    /\ rawQ # <<>>
    /\ ~UnmarshalRaw(Head(rawQ).bytes).err
    /\ LET d == Head(rawQ)
           p == ProcessRawStart(UnmarshalRaw(d.bytes).msg, env)
       IN /\ rawQ' = Tail(rawQ)
          /\ rawUnacked' = d
          /\ nc' = [pc |-> p.pc, tag |-> d.tag, platform |-> p.platform, event |-> p.event,
                    log |-> p.log]
          /\ hist' = [hist EXCEPT ![d.tag].delivered = @ + 1,
                                  ![d.tag].invoked = @ + 1,
                                  ![d.tag].returned = IF p.pc = "handled" THEN @ + 1 ELSE @,
                                  ![d.tag].log = p.log]
    /\ UNCHANGED <<call, env, req, publishMu, normQ, normUnacked, dc, foreign, crashes>>

\* NormalizeEvent: the call of GetPRFiles returns; an error is logged and the
\* event keeps its empty file list.
NormalizeFetchFiles ==
    /\ nc.pc = "fetch"
    /\ \E tokenOK \in BOOLEAN, resp \in ProviderResponses(nc.platform) :
          LET f == GetPRFiles(nc.platform, tokenOK, resp)
          IN /\ nc' = [nc EXCEPT !.pc = AfterFetch(f),
                                 !.event = WithFiles(@, f),
                                 !.log = IF f.err THEN "could not fetch PR files" ELSE ""]
             /\ hist' = [hist EXCEPT ![nc.tag].fetches = @ + 1,
                                     ![nc.tag].fetchErrs = IF f.err THEN @ + 1 ELSE @]
    /\ UNCHANGED <<call, env, req, publishMu, rawQ, normQ, rawUnacked, normUnacked, dc, foreign,
                   crashes>>

\* PublishNormalizedEvent: mq.publishMu.Lock()
PublishNormLock ==
    /\ nc.pc = "lock"
    /\ LockGranted(publishMu)
    /\ publishMu' = <<"consumer", 0>>
    /\ nc' = [nc EXCEPT !.pc = "publishing"]
    /\ hist' = [hist EXCEPT ![nc.tag].pubs = @ + 1]
    /\ UNCHANGED <<call, env, req, rawQ, normQ, rawUnacked, normUnacked, dc, foreign, crashes>>

\* PublishNormalizedEvent: PublishWithContext returns, the deferred Unlock
\* runs, and processRawEvent logs and returns.
PublishNormDone ==
    /\ nc.pc = "publishing"
    /\ publishMu = <<"consumer", 0>>
    /\ \E ok \in BOOLEAN :
          LET bytes == MarshalEvent(nc.event)
              log == IF ok THEN "published normalized event"
                           ELSE "could not publish normalized event"
              h == [hist EXCEPT ![nc.tag].returned = @ + 1, ![nc.tag].log = log]
              child == NormTag(nc.tag, hist[nc.tag].pubs)
          IN /\ normQ' = IF ok THEN Enqueue(normQ, [tag |-> child, bytes |-> bytes])
                               ELSE normQ
             /\ hist' = IF ok THEN [h EXCEPT ![child] = NewHist("norm", bytes)] ELSE h
             /\ nc' = [nc EXCEPT !.pc = "handled", !.log = log]
             /\ publishMu' = Unlock(publishMu, ok)
    /\ UNCHANGED <<call, env, req, rawQ, rawUnacked, normUnacked, dc, foreign, crashes>>

RawAckReadyEarly == nc.pc \in {"fetch", "lock", "publishing", "handled"}

\* ConsumeRawEvents reaches d.Ack(false): handler(msg) has returned.
RawAckReady == nc.pc = "handled"

\* ConsumeRawEvents: d.Ack(false), and the loop waits for the next delivery.
ConsumeRawAck ==
    /\ RawAckReady
    /\ rawUnacked # None
    /\ rawUnacked' = None
    /\ hist' = [hist EXCEPT ![nc.tag].settle = "ack"]
    /\ nc' = IF nc.pc = "handled" THEN NcWait ELSE nc
    /\ UNCHANGED <<call, env, req, publishMu, rawQ, normQ, normUnacked, dc, foreign, crashes>>

\* ------------------------------------------------------- Delivery Consumer
SinkResponses ==
    { [transport |-> TRUE, code |-> 200],
      [transport |-> TRUE, code |-> 302],
      [transport |-> TRUE, code |-> 500],
      [transport |-> FALSE, code |-> 0] }

SinkConfiguredAlways(e) == TRUE

\* DeliverEvent: url # "", the value of PLATFORM_BE_URL read at start-up.
SinkConfigured(e) == e.sink

\* DeliverEvent with a URL configured, given what the POST came to.
DeliverEvent(resp) ==
    IF ~resp.transport THEN [err |-> TRUE, log |-> "failed to reach Platform BE"]
    ELSE IF resp.code >= 400 THEN [err |-> TRUE, log |-> "Platform BE returned error"]
    ELSE [err |-> FALSE, log |-> "delivered"]

\* ConsumeNormalizedEvents: the next delivery does not decode.
ConsumeNormPoison ==
    /\ env.mqUp
    /\ ReadyForNext(dc, normUnacked)
    /\ normQ # <<>>
    /\ UnmarshalEvent(Head(normQ).bytes).err
    /\ normQ' = Tail(normQ)
    /\ hist' = [hist EXCEPT ![Head(normQ).tag].delivered = @ + 1,
                            ![Head(normQ).tag].settle = "nack"]
    /\ UNCHANGED <<call, env, req, publishMu, rawQ, rawUnacked, normUnacked, nc, dc, foreign,
                   crashes>>

\* ConsumeNormalizedEvents: the next delivery decodes and handler(&event) is
\* called: DeliverEvent logs and returns when no URL is set, else POSTs.
ConsumeNormHandle ==
    /\ env.mqUp
    /\ ReadyForNext(dc, normUnacked)
    /\ normQ # <<>>
    /\ ~UnmarshalEvent(Head(normQ).bytes).err
    /\ LET d == Head(normQ)
           log == IF SinkConfigured(env) THEN "" ELSE "PLATFORM_BE_URL not set, event logged"
       IN /\ normQ' = Tail(normQ)
          /\ normUnacked' = d
          /\ dc' = [pc |-> IF SinkConfigured(env) THEN "post" ELSE "handled", tag |-> d.tag,
                    event |-> UnmarshalEvent(d.bytes).event, log |-> log]
          /\ hist' = [hist EXCEPT ![d.tag].delivered = @ + 1,
                                  ![d.tag].invoked = @ + 1,
                                  ![d.tag].returned = IF SinkConfigured(env) THEN @ ELSE @ + 1,
                                  ![d.tag].log = log]
    /\ UNCHANGED <<call, env, req, publishMu, rawQ, rawUnacked, nc, foreign, crashes>>

\* DeliverEvent: client.Post returns; the handler logs a failure and returns.
DeliverPost ==
    /\ dc.pc = "post"
    /\ \E resp \in SinkResponses :
          LET r == DeliverEvent(resp)
              log == IF r.err THEN "could not deliver event" ELSE r.log
          IN /\ dc' = [dc EXCEPT !.pc = "handled", !.log = log]
             /\ hist' = [hist EXCEPT ![dc.tag].posts = @ + 1,
                                     ![dc.tag].returned = @ + 1,
                                     ![dc.tag].log = log]
    /\ UNCHANGED <<call, env, req, publishMu, rawQ, normQ, rawUnacked, normUnacked, nc, foreign,
                   crashes>>

\* ConsumeNormalizedEvents after handler(&event) returned: the delivery is
\* settled (requeued when `requeue`), and the loop waits for the next one.
NormSettle(requeue) ==
    /\ dc.pc = "handled"
    /\ normUnacked # None
    /\ normUnacked' = None
    /\ normQ' = IF requeue THEN <<normUnacked>> \o normQ ELSE normQ
    /\ hist' = [hist EXCEPT ![dc.tag].settle = IF requeue THEN @ ELSE "ack"]
    /\ dc' = DcWait
    /\ UNCHANGED <<call, env, req, publishMu, rawQ, rawUnacked, nc, foreign, crashes>>

ConsumeNormRequeueOnError == NormSettle(dc.log = "could not deliver event")

\* ConsumeNormalizedEvents: d.Ack(false), whatever the handler logged.
ConsumeNormAck == NormSettle(FALSE)

\* ------------------------------------------------------------ environment
\* Another publisher leaves bytes that are no JSON on one of the queues.
ForeignPublish(q) ==
    /\ env.mqUp
    /\ foreign < MaxForeign
    /\ foreign' = foreign + 1
    /\ hist' = [hist EXCEPT ![ForeignTag(foreign + 1)] = NewHist(q, Garbage)]
    /\ IF q = "raw"
       THEN /\ rawQ' = Enqueue(rawQ, [tag |-> ForeignTag(foreign + 1), bytes |-> Garbage])
            /\ normQ' = normQ
       ELSE /\ normQ' = Enqueue(normQ, [tag |-> ForeignTag(foreign + 1), bytes |-> Garbage])
            /\ rawQ' = rawQ
    /\ UNCHANGED <<call, env, req, publishMu, rawUnacked, normUnacked, nc, dc, crashes>>

RequeueAutoAck(unacked, q) == q

\* ch.Consume is called with auto-ack off: a delivery the consumer has not
\* settled is still the broker's, and goes back to the head of its queue when
\* the consumer's channel is gone.
Requeue(unacked, q) == IF unacked = None THEN q ELSE <<unacked>> \o q

\* The process dies and its supervisor starts it again: the goroutines are
\* gone, open HTTP connections are dropped, and the broker, which never saw
\* an ack for the outstanding deliveries (auto-ack is off), makes them ready
\* again at the head of their queues.
Crash ==
    /\ env.mqUp
    /\ crashes < MaxCrashes
    /\ \/ rawUnacked # None
       \/ normUnacked # None
       \/ \E r \in Requests : req[r].pc \in {"lock", "publishing"}
    /\ crashes' = crashes + 1
    /\ req' = [r \in Requests |->
                  IF req[r].pc \in {"lock", "publishing"}
                  THEN [req[r] EXCEPT !.pc = "aborted"] ELSE req[r]]
    /\ publishMu' = Free
    /\ rawQ' = Requeue(rawUnacked, rawQ)
    /\ normQ' = Requeue(normUnacked, normQ)
    /\ rawUnacked' = None
    /\ normUnacked' = None
    /\ nc' = NcWait
    /\ dc' = DcWait
    /\ UNCHANGED <<call, env, hist, foreign>>

ConsumeResultClosedError == "channel closed"

\* ConsumeRawEvents and ConsumeNormalizedEvents after `range deliveries`
\* has ended: return nil.
ConsumeResult == "nil"

\* StartConsumer and StartEventBusConsumer: log.Fatalf when the consume
\* function returned an error.
Fatal(err) == err # "nil"

\* The delivery channel of the Normalization Consumer closes. The loop sees
\* it at `range deliveries`, at once when it is waiting there and after
\* handler(msg) and the d.Ack that fails on the closed channel otherwise; the
\* broker makes the unacknowledged delivery ready again. ConsumeRawEvents
\* returns and StartConsumer exits the process or returns.
RawChannelClose ==
    /\ env.mqUp
    /\ nc.pc \in {"wait", "handled"}
    /\ rawQ' = Requeue(rawUnacked, rawQ)
    /\ rawUnacked' = None
    /\ IF Fatal(ConsumeResult)
       THEN /\ nc' = [NcWait EXCEPT !.pc = "exited"]
            /\ dc' = [DcWait EXCEPT !.pc = "exited"]
            /\ normQ' = Requeue(normUnacked, normQ)
            /\ normUnacked' = None
            /\ publishMu' = Free
            /\ req' = [r \in Requests |->
                          IF req[r].pc \in {"lock", "publishing"}
                          THEN [req[r] EXCEPT !.pc = "aborted"] ELSE req[r]]
       ELSE /\ nc' = [NcWait EXCEPT !.pc = "stopped"]
            /\ UNCHANGED <<dc, normQ, normUnacked, publishMu, req>>
    /\ UNCHANGED <<call, env, hist, foreign, crashes>>

\* The delivery channel of the Delivery Consumer closes; as above, with
\* ConsumeNormalizedEvents and StartEventBusConsumer.
NormChannelClose ==
    /\ env.mqUp
    /\ dc.pc \in {"wait", "handled"}
    /\ normQ' = Requeue(normUnacked, normQ)
    /\ normUnacked' = None
    /\ IF Fatal(ConsumeResult)
       THEN /\ nc' = [NcWait EXCEPT !.pc = "exited"]
            /\ dc' = [DcWait EXCEPT !.pc = "exited"]
            /\ rawQ' = Requeue(rawUnacked, rawQ)
            /\ rawUnacked' = None
            /\ publishMu' = Free
            /\ req' = [r \in Requests |->
                          IF req[r].pc \in {"lock", "publishing"}
                          THEN [req[r] EXCEPT !.pc = "aborted"] ELSE req[r]]
       ELSE /\ dc' = [DcWait EXCEPT !.pc = "stopped"]
            /\ UNCHANGED <<nc, rawQ, rawUnacked, publishMu, req>>
    /\ UNCHANGED <<call, env, hist, foreign, crashes>>

\* GitHubAdapter.GetPRFiles calls token(), and getInstallationToken panics
\* in the goroutine of the Normalization Consumer: nothing recovers, the
\* process exits and is started again as after any crash; the broker makes
\* the unacknowledged deliveries ready again.
FetchPanic ==
    /\ nc.pc = "fetch"
    /\ nc.platform = PlatformGitHub
    /\ crashes < MaxCrashes
    /\ \E inst \in InstallationAnswers, tok \in TokenAnswers :
          getInstallationToken(inst, tok) = "panic"
    /\ crashes' = crashes + 1
    /\ hist' = [hist EXCEPT ![nc.tag].fetches = @ + 1,
                            ![nc.tag].log = "panic: interface conversion"]
    /\ req' = [r \in Requests |->
                  IF req[r].pc \in {"lock", "publishing"}
                  THEN [req[r] EXCEPT !.pc = "aborted"] ELSE req[r]]
    /\ publishMu' = Free
    /\ rawQ' = Requeue(rawUnacked, rawQ)
    /\ normQ' = Requeue(normUnacked, normQ)
    /\ rawUnacked' = None
    /\ normUnacked' = None
    /\ nc' = NcWait
    /\ dc' = DcWait
    /\ UNCHANGED <<call, env, foreign>>

\* ------------------------------------------------------------ direct calls
\* The functions of the program called on their own, with any argument, one
\* call in a run (and, for NormalizeEvent, the same call once more).
Others ==
    <<env, req, publishMu, rawQ, normQ, rawUnacked, normUnacked, nc, dc, hist, foreign,
      crashes>>

\* The two headers DetectPlatform reads, each absent or holding any value.
HeaderSets ==
    [ghEvent : {Empty, EvPullRequest, EvPush},
     bbKey : {Empty, KeyCreated, KeyUpdated, KeyFulfilled, KeyRejected, KeyComment,
              KeyRepoPush}]

CallDetectPlatform ==
    /\ call = NoCall
    /\ \E h \in HeaderSets :
          call' = [fn |-> "DetectPlatform", headers |-> h, out |-> DetectPlatform(h)]
    /\ UNCHANGED Others

Adapters == {PlatformGitHub, PlatformBitbucket}

CallGetPRFiles ==
    /\ call = NoCall
    /\ \E platform \in Adapters, tokenOK \in BOOLEAN :
          \E resp \in FileResponses(platform) :
             call' = [fn |-> "GetPRFiles", platform |-> platform, resp |-> resp,
                      out |-> GetPRFiles(platform, tokenOK, resp)]
    /\ UNCHANGED Others

\* NewSCMAdapter(platform) under any environment.
CallNewSCMAdapter ==
    /\ call = NoCall
    /\ \E platform \in {PlatformGitHub, PlatformBitbucket, PlatformUnknown}, e \in Envs :
          call' = [fn |-> "NewSCMAdapter", platform |-> platform, env |-> e,
                   out |-> NewSCMAdapter(platform, e)]
    /\ UNCHANGED Others

\* DeliverEvent(event, url) with a URL set, the sink answering resp.
CallDeliverEvent ==
    /\ call = NoCall
    /\ \E e \in Envs, resp \in SinkResponses :
          /\ SinkConfigured(e)
          /\ call' = [fn |-> "DeliverEvent", env |-> e, resp |-> resp,
                      out |-> DeliverEvent(resp)]
    /\ UNCHANGED Others

\* adapter.GetPRDetails(owner, repo, prNumber), the provider answering the
\* token requests and the pull-request request in any way that does not
\* panic.
CallGetPRDetails ==
    /\ call = NoCall
    /\ \E platform \in Adapters, inst \in InstallationAnswers, tokAns \in TokenAnswers,
          resp \in DetailResponses :
          LET tok == getInstallationToken(inst, tokAns)
          IN /\ tok # "panic"
             /\ call' = [fn |-> "GetPRDetails", platform |-> platform, token |-> tok,
                         resp |-> resp, out |-> GetPRDetails(platform, tok, resp)]
    /\ UNCHANGED Others

\* The hex string in upper case.
UpperHex(h) ==
    [i \in 1..Len(h) |->
        IF h[i] = "a" THEN "A" ELSE IF h[i] = "b" THEN "B" ELSE IF h[i] = "c" THEN "C"
        ELSE IF h[i] = "d" THEN "D" ELSE IF h[i] = "e" THEN "E" ELSE IF h[i] = "f" THEN "F"
        ELSE h[i]]

\* The signatures verifyWebhookSignature is called with directly: absent,
\* the bare prefix, the right digest bare, prefixed, doubly prefixed, in
\* upper case, cut short, with a byte too many, and digests of another key.
SignatureChoices(b, secret) ==
    LET d == HexHmac(b, secret)
    IN {Empty, Sha256Prefix, d, Sha256Prefix \o d, Sha256Prefix \o Sha256Prefix \o d,
        UpperHex(d), Sha256Prefix \o UpperHex(d), SubSeq(d, 1, 1), d \o <<"0">>,
        BadSig, WrongKeySig(b), HexHmac(b, SecretOther)}

\* verifyWebhookSignature(payload, signature, secret) on any of these.
CallVerifySignature ==
    /\ call = NoCall
    /\ \E b \in BodySet, secret \in {SecretKey, SecretOther} :
          \E signature \in SignatureChoices(b, secret) \cup SignatureChoices(b, SecretKey) :
             call' = [fn |-> "verifyWebhookSignature", payload |-> b,
                      signature |-> signature, secret |-> secret,
                      out |-> verifyWebhookSignature(b, signature, secret)]
    /\ UNCHANGED Others

\* mapBitbucketEventKey(key) on any header value.
CallMapBitbucketEventKey ==
    /\ call = NoCall
    /\ \E key \in {Empty, EvPullRequest, EvPush, KeyCreated, KeyUpdated, KeyFulfilled,
                    KeyRejected, KeyComment, KeyRepoPush} :
          call' = [fn |-> "mapBitbucketEventKey", key |-> key,
                   out |-> mapBitbucketEventKey(key)]
    /\ UNCHANGED Others

\* The event types processRawEvent passes to an adapter.
EventTypes(platform) ==
    IF platform = PlatformGitHub THEN {EvPullRequest}
    ELSE {KeyCreated, KeyUpdated, KeyFulfilled, KeyRejected, KeyComment}

\* time.Now() as a reading of a clock that does not go back.
Clock == 1..MaxClock

\* adapter.NormalizeEvent(eventType, payload), the provider answering resp.
CallNormalizeEvent ==
    /\ call = NoCall
    /\ \E platform \in Adapters, payload \in BodySet, tokenOK \in BOOLEAN, now \in Clock :
          \E eventType \in EventTypes(platform), resp \in ProviderResponses(platform) :
             LET o == NormalizeEventWhole(platform, eventType, payload, tokenOK, resp)
             IN call' = [fn |-> "NormalizeEvent", platform |-> platform,
                         eventType |-> eventType, payload |-> payload,
                         answer |-> GetPRFiles(platform, tokenOK, resp),
                         out |-> o, ReceivedAt |-> now]
    /\ UNCHANGED Others

\* The same call once more, on the same event type and payload; the provider
\* is asked again and the clock read again.
CallNormalizeEventAgain ==
    /\ call.fn = "NormalizeEvent"
    /\ \E tokenOK \in BOOLEAN, resp \in ProviderResponses(call.platform), now \in Clock :
          /\ now >= call.ReceivedAt
          /\ LET o == NormalizeEventWhole(call.platform, call.eventType, call.payload,
                                          tokenOK, resp)
             IN call' = [fn |-> "NormalizeEvent again", platform |-> call.platform,
                         eventType |-> call.eventType, payload |-> call.payload,
                         firstAnswer |-> call.answer, first |-> call.out,
                         firstReceivedAt |-> call.ReceivedAt,
                         answer |-> GetPRFiles(call.platform, tokenOK, resp),
                         out |-> o, ReceivedAt |-> now]
    /\ UNCHANGED Others

\* --------------------------------------------------------- specifications
Pipeline ==
    \/ \E r \in Requests : PublishRawLock(r)
    \/ \E r \in Requests : PublishRawDone(r)
    \/ ConsumeRawPoison
    \/ ConsumeRawHandle
    \/ NormalizeFetchFiles
    \/ PublishNormLock
    \/ PublishNormDone
    \/ ConsumeRawAck
    \/ ConsumeNormPoison
    \/ ConsumeNormHandle
    \/ DeliverPost
    \/ ConsumeNormAck
    \/ \E q \in {"raw", "norm"} : ForeignPublish(q)

Next ==
    \/ \E r \in Requests, in \in PipelineRequests : WebhookHandlerStart(r, in)
    \/ Pipeline

\* The pipeline while the process stays up: concurrent requests, both
\* consumers, the broker.
Spec == Init /\ [][Next]_vars

NextCrash ==
    \/ \E r \in Requests, in \in CrashRequests : WebhookHandlerStart(r, in)
    \/ Pipeline
    \/ Crash

\* The pipeline with process crashes and restarts.
SpecCrash == Init /\ [][NextCrash]_vars

NextGateway ==
    \/ \E in \in AllRequests : WebhookHandlerStart(1, in)
    \/ PublishRawLock(1)
    \/ PublishRawDone(1)

\* The gateway alone, one request of any shape.
SpecGateway == Init /\ [][NextGateway]_vars

NextAdapter ==
    \/ \E in \in AdapterRequests : WebhookHandlerStart(1, in)
    \/ Pipeline

\* One pull-request webhook of any body and event key through the pipeline.
SpecAdapter == Init /\ [][NextAdapter]_vars

NextPanic ==
    \/ \E in \in AdapterRequests : WebhookHandlerStart(1, in)
    \/ Pipeline
    \/ FetchPanic

\* One pull-request webhook through the pipeline, the provider's
\* installation list being any JSON.
SpecPanic == Init /\ [][NextPanic]_vars

\* A call returns by itself only when it carries a deadline; a loop that has
\* a delivery waiting takes it, and the mutex is granted when free.
FairnessDeadlines ==
    /\ WF_vars(PublishRawLock(1))
    /\ WF_vars(Bounded(PublishTimeout) /\ PublishRawDone(1))
    /\ WF_vars(ConsumeRawPoison)
    /\ WF_vars(ConsumeRawHandle)
    /\ WF_vars(Bounded(ProviderTimeout) /\ NormalizeFetchFiles)
    /\ WF_vars(PublishNormLock)
    /\ WF_vars(Bounded(PublishTimeout) /\ PublishNormDone)
    /\ WF_vars(ConsumeRawAck)
    /\ WF_vars(ConsumeNormPoison)
    /\ WF_vars(ConsumeNormHandle)
    /\ WF_vars(Bounded(SinkTimeout) /\ DeliverPost)
    /\ WF_vars(ConsumeNormAck)

\* One pull-request webhook through the pipeline, the remote peers answering
\* or not as they please.
SpecDeadlines == Init /\ [][NextAdapter]_vars /\ FairnessDeadlines

\* The steps whose outcome a remote peer decides, when the peer is healthy:
\* the broker accepts the publish, the provider issues a token and answers
\* the file list, the sink answers the POST without an error status.
PublishRawAccepted(r) == PublishRawDone(r) /\ req'[r].log = "published raw event"

FetchFilesAnswered == NormalizeFetchFiles /\ nc'.log = ""

PublishNormAccepted == PublishNormDone /\ nc'.log = "published normalized event"

DeliverPostAccepted == DeliverPost /\ dc'.log = "delivered"

NextHealthy ==
    \/ \E r \in Requests, in \in PipelineRequests : WebhookHandlerStart(r, in)
    \/ \E r \in Requests : PublishRawLock(r)
    \/ \E r \in Requests : PublishRawAccepted(r)
    \/ ConsumeRawHandle
    \/ FetchFilesAnswered
    \/ PublishNormLock
    \/ PublishNormAccepted
    \/ ConsumeRawAck
    \/ ConsumeNormHandle
    \/ DeliverPostAccepted
    \/ ConsumeNormAck

\* Every handler and both consumer goroutines keep running: a step that
\* stays possible is taken.
FairnessHealthy ==
    /\ \A r \in Requests : WF_vars(PublishRawLock(r))
    /\ \A r \in Requests : WF_vars(PublishRawAccepted(r))
    /\ WF_vars(ConsumeRawHandle)
    /\ WF_vars(FetchFilesAnswered)
    /\ WF_vars(PublishNormLock)
    /\ WF_vars(PublishNormAccepted)
    /\ WF_vars(ConsumeRawAck)
    /\ WF_vars(ConsumeNormHandle)
    /\ WF_vars(DeliverPostAccepted)
    /\ WF_vars(ConsumeNormAck)

InitHealthy == Init /\ env = EnvFull

\* The pipeline with a healthy broker, every credential and the sink URL
\* configured, and the provider and the sink answering.
SpecHealthy == InitHealthy /\ [][NextHealthy]_vars /\ FairnessHealthy

\* The requests of the runs that follow the publish lock.
PublishRequests ==
    { GitHubRequest(BodyOpened, EvPullRequest),
      BitbucketRequest(BodyClosed, KeyFulfilled) }

NextPublish ==
    \/ \E r \in Requests, in \in PublishRequests : WebhookHandlerStart(r, in)
    \/ Pipeline

\* Each publish call returns, and sync.Mutex hands the mutex to a goroutine
\* that keeps waiting for it (starvation mode): a waiter for which the mutex
\* is free again and again acquires it.
FairnessPublish ==
    /\ \A r \in Requests : SF_vars(PublishRawLock(r))
    /\ \A r \in Requests : WF_vars(PublishRawDone(r))
    /\ SF_vars(PublishNormLock)
    /\ WF_vars(PublishNormDone)

\* Concurrent HTTP handlers and the Normalization Consumer publishing on the
\* shared channel, the broker accepting or refusing each publish.
SpecPublish == Init /\ [][NextPublish]_vars /\ FairnessPublish

NextClose ==
    \/ \E r \in Requests, in \in PublishRequests : WebhookHandlerStart(r, in)
    \/ Pipeline
    \/ RawChannelClose
    \/ NormChannelClose

\* The pipeline with the broker closing the consumers' delivery channels.
SpecClose == Init /\ [][NextClose]_vars

NextCalls ==
    \/ CallDetectPlatform
    \/ CallNewSCMAdapter
    \/ CallGetPRFiles
    \/ CallMapBitbucketEventKey
    \/ CallVerifySignature
    \/ CallGetPRDetails
    \/ CallDeliverEvent
    \/ CallNormalizeEvent
    \/ CallNormalizeEventAgain

\* The adapters' and the router's functions, each called directly.
SpecCalls == Init /\ [][NextCalls]_vars

NextRedeliver ==
    \/ \E in \in CrashRequests : WebhookHandlerStart(1, in)
    \/ Pipeline
    \/ Crash

\* Every call the handlers and the consumer loops make returns, and a loop
\* that has a delivery waiting takes it: each step of the gateway's publish
\* and of the two consumer goroutines is taken once it stays possible.
Fairness ==
    /\ WF_vars(\E r \in Requests : PublishRawLock(r))
    /\ WF_vars(\E r \in Requests : PublishRawDone(r))
    /\ WF_vars(ConsumeRawPoison)
    /\ WF_vars(ConsumeRawHandle)
    /\ WF_vars(NormalizeFetchFiles)
    /\ WF_vars(PublishNormLock)
    /\ WF_vars(PublishNormDone)
    /\ WF_vars(ConsumeRawAck)
    /\ WF_vars(ConsumeNormPoison)
    /\ WF_vars(ConsumeNormHandle)
    /\ WF_vars(DeliverPost)
    /\ WF_vars(ConsumeNormAck)

\* One webhook through the pipeline with crashes, the process restarting
\* after each and its goroutines running on.
SpecRedeliver == Init /\ [][NextRedeliver]_vars /\ Fairness

\* ------------------------------------------------------------ properties
\* Messages of tag t ready on queue q.
Count(q, t) == Cardinality({i \in DOMAIN q : q[i].tag = t})

Present(t) == hist[t].settle # "absent"

\* The signature the handler is given: X-Hub-Signature-256, or X-Hub-Signature
\* when the former is absent.
Supplied(in) == IF in.sig256 # Empty THEN in.sig256 ELSE in.sig

\* The supplied signature is the hex HMAC-SHA256 of the body under the
\* configured secret, with or without the "sha256=" scheme prefix.
CorrectlySigned(in) ==
    /\ in.readOK
    /\ env.secret # Empty
    /\ Supplied(in) \in {HexHmac(in.body, env.secret),
                         Sha256Prefix \o HexHmac(in.body, env.secret)}

\* A signature is supplied and is not that HMAC.
WronglySigned(in) ==
    /\ in.readOK
    /\ env.secret # Empty
    /\ Supplied(in) # Empty
    /\ ~CorrectlySigned(in)

\* The request is a pull-request event of the platform its headers select.
PullRequestClass(in) ==
    \/ in.ghEvent = EvPullRequest
    \/ in.ghEvent = Empty /\ in.bbKey # Empty /\ in.bbKey[1] = "pullrequest:"

\* The raw message of request r as the broker holds it carries the request's
\* body, byte for byte.
PayloadIdentical(r) ==
    /\ hist[RawTag(r)].bytes.fmt = "json"
    /\ Base64Decode(hist[RawTag(r)].bytes.payload) = req[r].in.body

\* C1 as stated: every correctly signed request is answered 200 and exactly
\* one RawWebhookMessage with its body as payload is published.
C1_AlwaysPublished ==
    \A r \in Requests :
        (req[r].pc = "done" /\ CorrectlySigned(req[r].in)) =>
            /\ req[r].status = StatusOK
            /\ Count(rawQ, RawTag(r)) = 1
            /\ PayloadIdentical(r)

\* C1 amended: every correctly signed request is answered 200; at most one
\* RawWebhookMessage is published for it; one is published, with the
\* request's body as payload, exactly when the event is pull-request class,
\* the queue client is not nil and the publish call did not fail.
C1_PublishedWhenPRAndBrokerUp ==
    \A r \in Requests :
        (req[r].pc = "done" /\ CorrectlySigned(req[r].in)) =>
            /\ req[r].status = StatusOK
            /\ req[r].attempts <= 1
            /\ Count(rawQ, RawTag(r)) <= 1
            /\ Count(rawQ, RawTag(r)) = 1 <=>
                  /\ PullRequestClass(req[r].in)
                  /\ env.mqUp
                  /\ req[r].log # "could not publish raw event"
            /\ Count(rawQ, RawTag(r)) = 1 => PayloadIdentical(r)

C1_Witness ==
    \E r \in Requests :
        /\ req[r].pc = "done"
        /\ CorrectlySigned(req[r].in)
        /\ req[r].status = StatusOK
        /\ Count(rawQ, RawTag(r)) = 1
        /\ PayloadIdentical(r)

\* C2: a request whose supplied signature is not the HMAC of its body (under
\* the configured secret) is answered 401, the handler returns at once, and
\* nothing is published to either queue.
C2_BadSignatureRejected ==
    \A r \in Requests :
        (req[r].pc # "idle" /\ WronglySigned(req[r].in)) =>
            /\ req[r].status = StatusUnauthorized
            /\ req[r].pc = "done"
            /\ req[r].sent
            /\ req[r].attempts = 0
            /\ ~Present(RawTag(r))
            /\ Count(rawQ, RawTag(r)) = 0
            /\ normQ = <<>>

C2_Witness ==
    \E r \in Requests :
        /\ req[r].pc = "done"
        /\ WronglySigned(req[r].in)
        /\ PullRequestClass(req[r].in)
        /\ env.mqUp
        /\ req[r].status = StatusUnauthorized
        /\ rawQ = <<>>

\* C3 as stated: whenever a handler waits for the publish lock or is inside
\* the publish call, its 200 response has already been sent to the caller.
C3_ResponseSentBeforePublish ==
    \A r \in Requests :
        req[r].pc \in {"lock", "publishing"} =>
            /\ req[r].status = StatusOK
            /\ req[r].sent

\* The request was verified and is a pull-request event, and its raw event
\* was dropped: the queue client is nil, or the publish call failed.
Dropped(r) ==
    /\ CorrectlySigned(req[r].in)
    /\ PullRequestClass(req[r].in)
    /\ \/ ~env.mqUp
       \/ req[r].log = "could not publish raw event"

\* C4: when the queue client is nil or the publish fails, the handler
\* returns, the response of the request is 200, nothing of the request is on
\* the raw queue, the publish lock is not left held, and the publish was
\* tried at most once; while the publish is under way the status written
\* stays 200.
C4_DroppedEventKeeps200 ==
    \A r \in Requests :
        /\ req[r].attempts <= 1
        /\ req[r].pc \in {"lock", "publishing"} => req[r].status = StatusOK
        /\ (req[r].pc # "idle" /\ Dropped(r)) =>
              /\ req[r].pc = "done"
              /\ req[r].status = StatusOK
              /\ req[r].sent
              /\ req[r].attempts = IF env.mqUp THEN 1 ELSE 0
              /\ ~Present(RawTag(r))
              /\ Count(rawQ, RawTag(r)) = 0
              /\ publishMu # <<"http", r>>

C4_Witness ==
    \E r \in Requests :
        /\ req[r].pc = "done"
        /\ Dropped(r)
        /\ req[r].log = "could not publish raw event"
        /\ req[r].attempts = 1
        /\ req[r].status = StatusOK
        /\ rawQ = <<>>

\* The handler of the delivery in hand has been called and has not returned.
RawHandlerRunning == nc.pc \in {"fetch", "lock", "publishing"}

NormHandlerRunning == dc.pc = "post"

\* C5: while the handler of a delivery runs, on either queue, the broker
\* still holds the delivery as unacknowledged; a delivery is acknowledged
\* only once its handler has returned as often as it was called.
C5_AckAfterHandlerReturns ==
    /\ RawHandlerRunning =>
          /\ rawUnacked # None
          /\ rawUnacked.tag = nc.tag
          /\ hist[nc.tag].settle = "open"
    /\ NormHandlerRunning =>
          /\ normUnacked # None
          /\ normUnacked.tag = dc.tag
          /\ hist[dc.tag].settle = "open"
    /\ \A t \in Tags :
          hist[t].settle = "ack" =>
              /\ hist[t].invoked >= 1
              /\ hist[t].returned = hist[t].invoked

C5_Witness ==
    /\ \E t \in Tags : hist[t].q = "raw" /\ hist[t].settle = "ack" /\ hist[t].fetches = 1
    /\ \E t \in Tags : hist[t].q = "norm" /\ hist[t].settle = "ack" /\ hist[t].posts = 1

\* How many copies of message t the broker holds, ready or unacknowledged.
Held(t) ==
    Count(rawQ, t) + Count(normQ, t)
    + (IF rawUnacked # None /\ rawUnacked.tag = t THEN 1 ELSE 0)
    + (IF normUnacked # None /\ normUnacked.tag = t THEN 1 ELSE 0)

Decodable(t) == hist[t].bytes.fmt = "json"

\* C6: a message the broker accepted is held by the broker (ready, or
\* delivered and unacknowledged) until it is settled; it is acknowledged only
\* after its handler returned, and discarded unhandled only when it does not
\* decode; after a crash it is ready again, and its handler is called once
\* more.
C6_AtLeastOnce ==
    \A t \in Tags :
        Present(t) =>
            /\ Held(t) <= 1
            /\ Held(t) = 1 <=> hist[t].settle = "open"
            /\ hist[t].settle = "ack" => Decodable(t) /\ hist[t].returned >= 1
            /\ hist[t].settle = "nack" => ~Decodable(t)
            /\ hist[t].returned <= hist[t].invoked
            /\ hist[t].invoked <= crashes + 1

C7_PoisonDiscarded ==
    \A t \in Tags :
        (Present(t) /\ ~Decodable(t)) =>
            /\ hist[t].invoked = 0
            /\ hist[t].returned = 0
            /\ hist[t].delivered <= 1
            /\ hist[t].settle # "ack"
            /\ hist[t].delivered = 1 => (hist[t].settle = "nack" /\ Held(t) = 0)
            /\ (hist[t].settle = "nack" /\ hist[t].q = "raw" /\ rawQ # <<>>
                  /\ rawUnacked = None /\ nc.pc = "wait")
                  => ENABLED (ConsumeRawHandle \/ ConsumeRawPoison)
            /\ (hist[t].settle = "nack" /\ hist[t].q = "norm" /\ normQ # <<>>
                  /\ normUnacked = None /\ dc.pc = "wait")
                  => ENABLED (ConsumeNormHandle \/ ConsumeNormPoison)

\* A raw message is being handled after the poison message was dropped (the
\* loop is single-threaded: the drop came first).
C7_Witness ==
    /\ \E t \in Tags : hist[t].q = "raw" /\ ~Decodable(t) /\ hist[t].settle = "nack"
    /\ nc.pc = "handled"
    /\ hist[nc.tag].delivered = 1

\* NewSCMAdapter cannot build an adapter for raw message t.
AdapterFails(t) ==
    \/ hist[t].bytes.platform \notin {PlatformGitHub, PlatformBitbucket}
    \/ hist[t].bytes.platform = PlatformGitHub /\ ~env.ghCreds
    \/ hist[t].bytes.platform = PlatformBitbucket /\ ~env.bbCreds

\* The payload of raw message t is not JSON.
NormalizeFails(t) == ~Base64Decode(hist[t].bytes.payload).valid

Children(t) == {k \in 1..(MaxCrashes + 1) : Present(NormTag(t, k))}

C9_FailedDeliveryAcked ==
    \A t \in Tags :
        (Present(t) /\ hist[t].q = "norm") =>
            /\ hist[t].posts <= hist[t].delivered
            /\ hist[t].log = "could not deliver event" =>
                  /\ hist[t].posts = 1
                  /\ Count(normQ, t) = 0
                  /\ \/ hist[t].settle = "ack"
                     \/ /\ normUnacked # None /\ normUnacked.tag = t
                        /\ dc.pc = "handled"
                        /\ ENABLED ConsumeNormAck

C9_Witness ==
    \E t \in Tags :
        /\ hist[t].q = "norm"
        /\ hist[t].log = "could not deliver event"
        /\ hist[t].posts = 1
        /\ hist[t].settle = "ack"

\* The enrichable actions of each provider.
EnrichableSet(platform) ==
    IF platform = PlatformGitHub
    THEN {"opened", "synchronize", "reopened"}
    ELSE {"opened", "synchronize"}

\* The action of raw message t is in its provider's enrichable set and its
\* pull-request number is not zero, read off the webhook itself: GitHub names
\* the action in the payload, Bitbucket in the event key (created is
\* opened, updated is synchronize).
Enrichable(t) ==
    LET b == hist[t].bytes
        p == Base64Decode(b.payload)
    IN IF b.platform = PlatformGitHub
       THEN p.number # 0 /\ p.action \in {"opened", "synchronize", "reopened"}
       ELSE p.id # 0 /\ b.event_type \in {KeyCreated, KeyUpdated}

\* Raw message t tells of a closed, merged or declined pull request.
ClosedPR(t) ==
    LET b == hist[t].bytes
    IN IF b.platform = PlatformGitHub
       THEN Base64Decode(b.payload).action = "closed"
       ELSE b.event_type \in {KeyFulfilled, KeyRejected}

\* C10: NormalizeEvent calls GetPRFiles once when the action is enrichable
\* and the PR number is not zero, and not at all otherwise; the normalized
\* event of a closed, merged or declined pull request has no files.
C10_EnrichmentIffEnrichable ==
    \A r \in Requests :
        LET t == RawTag(r)
            normalized == ~AdapterFails(t) /\ ~NormalizeFails(t)
        IN Present(t) =>
            /\ hist[t].fetches <= hist[t].invoked
            /\ hist[t].fetches >= 1 => (normalized /\ Enrichable(t))
            /\ (hist[t].returned = 1 /\ normalized /\ Enrichable(t)) => hist[t].fetches = 1
            /\ \A k \in Children(t) :
                  /\ hist[NormTag(t, k)].bytes.Files # <<>> => Enrichable(t)
                  /\ Enrichable(t) <=>
                        /\ hist[NormTag(t, k)].bytes.PR.Number # 0
                        /\ hist[NormTag(t, k)].bytes.Action \in EnrichableSet(hist[t].bytes.platform)
                  /\ ClosedPR(t) <=> hist[NormTag(t, k)].bytes.Action = "closed"
                  /\ ClosedPR(t) => hist[NormTag(t, k)].bytes.Files = <<>>

C10_Witness ==
    \E r \in Requests :
        /\ Present(RawTag(r))
        /\ ClosedPR(RawTag(r))
        /\ Base64Decode(hist[RawTag(r)].bytes.payload).number # 0
        /\ hist[RawTag(r)].returned = 1
        /\ hist[RawTag(r)].fetches = 0
        /\ \E k \in Children(RawTag(r)) : hist[NormTag(RawTag(r), k)].bytes.Files = <<>>

\* The pull-request number the payload of raw message t carries.
PayloadNumber(t) ==
    LET p == Base64Decode(hist[t].bytes.payload)
    IN IF hist[t].bytes.platform = PlatformGitHub THEN p.number ELSE p.id

\* The event has no files, and its pr and repository are the payload's.
FromPayloadNoFiles(event, t) ==
    /\ event.Files = <<>>
    /\ event.PR.Number = PayloadNumber(t)
    /\ event.Repository.FullName = Base64Decode(hist[t].bytes.payload).repo

\* C11: when GetPRFiles failed for a raw message, NormalizeEvent has
\* returned no error and an event without files whose pr and repository are
\* the payload's; the consumer goes on to the publish call, and the event it
\* leaves on the normalized queue is that one.
C11_EnrichmentFailureStillPublishes ==
    \A r \in Requests :
        LET t == RawTag(r)
        IN (Present(t) /\ hist[t].fetchErrs >= 1) =>
            /\ ~NormalizeFails(t)
            /\ hist[t].log # "could not normalize event"
            /\ nc.tag = t =>
                  /\ nc.pc \in {"lock", "publishing", "handled"}
                  /\ FromPayloadNoFiles(nc.event, t)
                  /\ nc.pc = "handled" => hist[t].pubs = 1
            /\ hist[t].returned = 1 => hist[t].pubs = 1
            /\ hist[t].log = "published normalized event" => Children(t) # {}
            /\ \A k \in Children(t) : FromPayloadNoFiles(hist[NormTag(t, k)].bytes, t)

C11_Witness ==
    \E r \in Requests :
        /\ Present(RawTag(r))
        /\ hist[RawTag(r)].fetchErrs = 1
        /\ PayloadNumber(RawTag(r)) # 0
        /\ \E k \in Children(RawTag(r)) :
              /\ hist[NormTag(RawTag(r), k)].bytes.Files = <<>>
              /\ hist[NormTag(RawTag(r), k)].bytes.PR.Number = PayloadNumber(RawTag(r))

NormalizedStatuses == {"added", "modified", "removed", "renamed"}

\* GetPRFiles was called and returned files.
FilesProduced == call.fn = "GetPRFiles" /\ ~call.out.err

\* C12 as stated: every file GetPRFiles returns has one of the four
\* statuses, and modified when the provider's status is none of the four
\* (in any letter case).
C12_StatusNormalized ==
    FilesProduced =>
        \A i \in DOMAIN call.out.files :
            /\ call.out.files[i].Status \in NormalizedStatuses
            /\ ToLower(call.resp.files[i].status) \notin NormalizedStatuses =>
                  call.out.files[i].Status = "modified"

\* C13 as stated: every file GetPRFiles returns has changes equal to
\* additions plus deletions.
C13_ChangesIsSum ==
    FilesProduced =>
        \A i \in DOMAIN call.out.files :
            call.out.files[i].Changes =
                call.out.files[i].Additions + call.out.files[i].Deletions

\* C14 as stated: every file GetPRFiles returns has a previous filename
\* exactly when its status is renamed.
C14_PreviousFilenameIffRenamed ==
    FilesProduced =>
        \A i \in DOMAIN call.out.files :
            call.out.files[i].PreviousFilename # "" <=> call.out.files[i].Status = "renamed"

\* NormalizeEvent was called twice on the same event type and payload.
CalledTwice == call.fn = "NormalizeEvent again"

\* C15 as stated: the two calls return events equal in every field
\* (receivedAt apart, which the model keeps beside the event).
C15_Idempotent ==
    CalledTwice =>
        /\ call.out.err = call.first.err
        /\ call.out.event = call.first.event

\* C15: the two calls fail or succeed together and return events equal in
\* platform, eventType, action, pr, repository and rawPayload; the files are
\* equal as well when GetPRFiles answered both calls alike, and differ only
\* for an event that is enriched; receivedAt is each call's clock reading.
C15_IdempotentUpToFiles ==
    CalledTwice =>
        /\ call.out.err = call.first.err
        /\ [call.out.event EXCEPT !.Files = <<>>] = [call.first.event EXCEPT !.Files = <<>>]
        /\ call.answer = call.firstAnswer => call.out.event = call.first.event
        /\ call.out.event.Files # call.first.event.Files =>
              NormalizeEvent(call.platform, call.eventType, call.payload).fetch
        /\ call.ReceivedAt >= call.firstReceivedAt

C15_Witness ==
    /\ CalledTwice
    /\ ~call.out.err
    /\ call.out.event.Files # <<>>
    /\ call.out.event = call.first.event
    /\ call.ReceivedAt > call.firstReceivedAt

\* C16: every event the pipeline leaves on the normalized queue has
\* platform github or bitbucket, the platform of the raw message it was made
\* from, which is the one the router built the adapter for and the one
\* DetectPlatform gave the request; so has every event in a consumer's hands.
C16_PlatformEnumerated ==
    /\ \A r \in Requests :
          \A k \in Children(RawTag(r)) :
              /\ hist[NormTag(RawTag(r), k)].bytes.Platform \in Adapters
              /\ hist[NormTag(RawTag(r), k)].bytes.Platform = hist[RawTag(r)].bytes.platform
              /\ hist[NormTag(RawTag(r), k)].bytes.Platform = DetectPlatform(req[r].in)
    /\ nc.pc \in {"fetch", "lock", "publishing"} =>
          /\ nc.event.Platform \in Adapters
          /\ nc.event.Platform = nc.platform
          /\ nc.event.Platform = NewSCMAdapter(hist[nc.tag].bytes.platform, env).platform
    /\ dc.pc \in {"post", "handled"} => dc.event.Platform \in Adapters

C16_Witness ==
    /\ \E i \in DOMAIN normQ : normQ[i].bytes.fmt = "json" /\ normQ[i].bytes.Platform = PlatformGitHub
    /\ \E i \in DOMAIN normQ :
          normQ[i].bytes.fmt = "json" /\ normQ[i].bytes.Platform = PlatformBitbucket

\* NormalizeEvent was called and returned an event.
EventProduced == call.fn \in {"NormalizeEvent", "NormalizeEvent again"} /\ ~call.out.err

\* C17 as stated: every event NormalizeEvent returns has eventType
\* "pull_request." followed by its action.
C17_EventTypeFromAction ==
    EventProduced => call.out.event.EventType = <<"pull_request.", call.out.event.Action>>

\* What request r left on the broker or in the publish path.
PublishedNothing(r) ==
    /\ req[r].attempts = 0
    /\ ~Present(RawTag(r))
    /\ Count(rawQ, RawTag(r)) = 0

\* C18 as stated: the status is 200 when the request verifies, 400 when the
\* body cannot be read or the signature is missing, 401 when the signature
\* does not match, 500 when the secret is not configured; and a request
\* answered with another status than 200 publishes nothing.
C18_StatusTable ==
    \A r \in Requests :
        req[r].pc # "idle" =>
            LET in == req[r].in
            IN /\ CorrectlySigned(in) => req[r].status = StatusOK
               /\ (env.secret # Empty /\ ~in.readOK) => req[r].status = StatusBadRequest
               /\ (env.secret # Empty /\ in.readOK /\ Supplied(in) = Empty) =>
                     req[r].status = StatusBadRequest
               /\ WronglySigned(in) => req[r].status = StatusUnauthorized
               /\ (env.secret = Empty /\ in.readOK) =>
                     req[r].status = StatusInternalServerError
               /\ req[r].status # StatusOK => PublishedNothing(r)

\* The raw event type of the request: X-GitHub-Event, or X-Event-Key when
\* only that header is present.
RawEventType(in) == IF in.ghEvent = Empty /\ in.bbKey # Empty THEN in.bbKey ELSE in.ghEvent

\* The raw event type is exactly "pull_request" or starts with "pullrequest:".
PullRequestEventType(et) == et = <<"pull_request">> \/ (et # Empty /\ et[1] = "pullrequest:")

\* C19: a publish is tried, and a raw message exists, only for a request
\* answered 200 whose event type is of the pull-request class, the message
\* carrying that event type; every other verified request is answered 200,
\* logged as skipped and publishes nothing.
C19_OnlyPullRequestEventsPublished ==
    \A r \in Requests :
        /\ (req[r].attempts >= 1 \/ Present(RawTag(r))) =>
              /\ req[r].status = StatusOK
              /\ CorrectlySigned(req[r].in)
              /\ PullRequestEventType(RawEventType(req[r].in))
        /\ Present(RawTag(r)) => hist[RawTag(r)].bytes.event_type = RawEventType(req[r].in)
        /\ (req[r].pc # "idle" /\ CorrectlySigned(req[r].in)
              /\ ~PullRequestEventType(RawEventType(req[r].in))) =>
              /\ req[r].pc = "done"
              /\ req[r].status = StatusOK
              /\ req[r].log = "skipping non-PR event"
              /\ PublishedNothing(r)
        /\ (req[r].pc = "done" /\ CorrectlySigned(req[r].in) /\ env.mqUp
              /\ PullRequestEventType(RawEventType(req[r].in))) => req[r].attempts = 1

C19_Witness ==
    \E r \in Requests :
        /\ req[r].pc = "done"
        /\ CorrectlySigned(req[r].in)
        /\ req[r].in.ghEvent = EvPush
        /\ req[r].status = StatusOK
        /\ req[r].log = "skipping non-PR event"
        /\ PublishedNothing(r)

\* C20: for any headers DetectPlatform returns one of the three platform
\* values: github when X-GitHub-Event is present, bitbucket when only
\* X-Event-Key is present, unknown when neither is.
C20_DetectPlatformTotal ==
    call.fn = "DetectPlatform" =>
        /\ call.out \in {PlatformGitHub, PlatformBitbucket, PlatformUnknown}
        /\ call.headers.ghEvent # Empty => call.out = PlatformGitHub
        /\ (call.headers.ghEvent = Empty /\ call.headers.bbKey # Empty) =>
              call.out = PlatformBitbucket
        /\ (call.headers.ghEvent = Empty /\ call.headers.bbKey = Empty) =>
              call.out = PlatformUnknown

C20_Witness ==
    /\ call.fn = "DetectPlatform"
    /\ call.headers.ghEvent = Empty
    /\ call.headers.bbKey = Empty
    /\ call.out = PlatformUnknown

\* ------------------------------------------------------------------ C21
\* The credentials NewSCMAdapter needs for a platform are in the environment.
CredentialsSet(platform, e) ==
    \/ platform = PlatformGitHub /\ e.ghCreds
    \/ platform = PlatformBitbucket /\ e.bbCreds

\* C21: NewSCMAdapter returns an error and no adapter when the platform is
\* not GitHub or Bitbucket (unknown included) or the platform's credentials
\* are missing from the environment; otherwise it returns an adapter whose
\* Platform() is the platform asked for. The outcome is decided by the
\* platform and the environment alone, no provider answer enters it.
C21_AdapterFactory ==
    call.fn = "NewSCMAdapter" =>
        /\ call.out.err <=> ~CredentialsSet(call.platform, call.env)
        /\ call.out.err => call.out.platform = PlatformUnknown
        /\ ~call.out.err => call.out.platform = call.platform

\* An adapter was asked for GitHub with GitHub's credentials missing while
\* Bitbucket's are set, and the call failed.
C21_Witness ==
    /\ call.fn = "NewSCMAdapter"
    /\ call.platform = PlatformGitHub
    /\ ~call.env.ghCreds
    /\ call.env.bbCreds
    /\ call.out.err

\* ------------------------------------------------------------------ C22
\* C22: with no sink URL configured the Delivery Consumer makes no HTTP call:
\* DeliverEvent logs the event and reports success (the handler logs no
\* delivery failure), and the message is acknowledged.
C22_NoSinkNoPost ==
    ~env.sink =>
        /\ dc.pc # "post"
        /\ \A t \in Tags :
              hist[t].q = "norm" =>
                 /\ hist[t].posts = 0
                 /\ hist[t].returned >= 1 =>
                        hist[t].log = "PLATFORM_BE_URL not set, event logged"
                 /\ Decodable(t) => hist[t].settle \in {"open", "ack"}
                 /\ (hist[t].returned >= 1 /\ dc.tag # t) => hist[t].settle = "ack"

\* No sink URL is set, and a normalized event went through the Delivery
\* Consumer: its handler ran and returned, and the delivery was acked.
C22_Witness ==
    /\ ~env.sink
    /\ \E t \in Tags :
          /\ hist[t].q = "norm"
          /\ Decodable(t)
          /\ hist[t].invoked = 1
          /\ hist[t].returned = 1
          /\ hist[t].settle = "ack"

\* ------------------------------------------------------------------ C23
\* The sink answered, with a status in 200..299.
Answered2xx(resp) == resp.transport /\ resp.code >= 200 /\ resp.code < 300

\* C23: with a sink URL configured, DeliverEvent reports a failure exactly
\* when the POST fails at the transport level or the response status is not
\* 2xx, and reports success exactly for a 2xx response.
C23_FailureIffNot2xx ==
    call.fn = "DeliverEvent" => (call.out.err <=> ~Answered2xx(call.resp))

\* ------------------------------------------------------------------ C24
\* C24: a failure local to one message (an undecodable message, an adapter
\* construction failure, a normalization failure, an enrichment failure, a
\* publish failure, a sink failure) never stops a consumption loop nor
\* crashes the process: the process never exits while handling a message,
\* and a handler that returned, whatever it logged, leaves its loop at the
\* settlement of the delivery, after which it waits for the next one.
C24_FailureNeverStopsLoop ==
    /\ crashes = 0
    /\ \A t \in Tags : hist[t].log # "panic: interface conversion"
    /\ nc.pc = "handled" => ENABLED ConsumeRawAck
    /\ dc.pc = "handled" => ENABLED ConsumeNormAck

\* ------------------------------------------------------------------ C25
\* C25: every outbound network call (a queue publish, a provider API fetch
\* during enrichment or credential acquisition, the sink POST) carries a
\* deadline, so that no handler invocation blocks forever on a remote peer: a
\* handler that is in such a call leaves it.
C25_NoHandlerBlocksForever ==
    /\ []((req[1].pc = "publishing") => <>(req[1].pc # "publishing"))
    /\ []((nc.pc = "fetch") => <>(nc.pc # "fetch"))
    /\ []((nc.pc = "publishing") => <>(nc.pc # "publishing"))
    /\ []((dc.pc = "post") => <>(dc.pc # "post"))

\* ------------------------------------------------------------------ C26
\* Request r is a validly signed pull-request webhook with a JSON body.
SignedPullRequest(r) ==
    /\ req[r].pc # "idle"
    /\ CorrectlySigned(req[r].in)
    /\ PullRequestClass(req[r].in)
    /\ req[r].in.body.valid

\* The normalized event made from request r, as the broker holds it.
EventOf(r) == UnmarshalEvent(hist[NormTag(RawTag(r), 1)].bytes).event

\* The event of request r was POSTed to the sink once and acknowledged.
DeliveredOnce(r) ==
    /\ Present(RawTag(r))
    /\ hist[RawTag(r)].settle = "ack"
    /\ Present(NormTag(RawTag(r), 1))
    /\ hist[NormTag(RawTag(r), 1)].posts = 1
    /\ hist[NormTag(RawTag(r), 1)].settle = "ack"

\* The stages follow each other: a normalized event exists only for a raw
\* message whose handler ran, a POST is made only for a normalized event on
\* the queue, and at most once; the event of a GitHub pull request opened
\* with three changed files has action "opened" and three files.
C26_Stages ==
    \A r \in Requests :
        LET raw == RawTag(r)
            norm == NormTag(RawTag(r), 1)
        IN /\ Present(raw) => CorrectlySigned(req[r].in) /\ PullRequestClass(req[r].in)
           /\ Present(norm) => Present(raw) /\ hist[raw].invoked = 1
           /\ ~Present(NormTag(raw, 2))
           /\ hist[norm].posts <= 1
           /\ hist[norm].posts = 1 => Present(norm) /\ hist[norm].invoked = 1
           /\ (Present(norm) /\ req[r].in = GitHubRequest(BodyOpened, EvPullRequest)) =>
                  /\ EventOf(r).Action = "opened"
                  /\ Len(EventOf(r).Files) = 3

\* C26: with a healthy broker, configured credentials and a reachable sink,
\* under fairness every validly signed pull-request webhook leads to a raw
\* message, then to a NormalizedEvent, then to one POST to the sink; a
\* pull request opened with three changed files is delivered with action
\* "opened" and a file list of length three.
C26_EndToEnd ==
    /\ []C26_Stages
    /\ \A r \in Requests : SignedPullRequest(r) ~> DeliveredOnce(r)

\* A GitHub pull request opened with three changed files went through all
\* three stages and its event, with the three files, was POSTed once.
C26_Witness ==
    \E r \in Requests :
        /\ req[r].in = GitHubRequest(BodyOpened, EvPullRequest)
        /\ DeliveredOnce(r)
        /\ EventOf(r).Action = "opened"
        /\ Len(EventOf(r).Files) = 3
        /\ hist[RawTag(r)].fetches = 1

\* ------------------------------------------------------------------ C27
\* The body is valid JSON of the shape the call expects: the pull request's
\* object for GetPRDetails, the file array (GitHub) or the diffstat object
\* (Bitbucket) for GetPRFiles.
ExpectedShape(fn, platform, resp) ==
    IF fn = "GetPRDetails" THEN resp.kind = "pr"
    ELSE IF platform = PlatformGitHub THEN resp.kind = "array"
    ELSE resp.kind = "object"

\* C27: GetPRDetails and GetPRFiles of every adapter return an error
\* whenever the provider answers with a status that is not 2xx or with a body
\* that is not valid JSON of the expected shape; no NormalizedPR and no file
\* list is built from an error response.
C27_ErrorOnBadAnswer ==
    call.fn \in {"GetPRDetails", "GetPRFiles"} =>
        ((~Answered2xx(call.resp) \/ ~ExpectedShape(call.fn, call.platform, call.resp))
            => call.out.err)

\* ------------------------------------------------------------------ C28
\* The goroutines inside PublishWithContext on the shared publish channel.
InPublish ==
    {<<"http", r>> : r \in {q \in Requests : req[q].pc = "publishing"}}
    \cup (IF nc.pc = "publishing" THEN {<<"consumer", 0>>} ELSE {})

\* C28: at most one goroutine at a time is inside a publish call on the
\* shared publish channel: concurrent calls of PublishRawEvent and
\* PublishNormalizedEvent exclude each other, and the one inside holds
\* publishMu.
C28_PublishMutualExclusion ==
    /\ Cardinality(InPublish) <= 1
    /\ \A g \in InPublish : publishMu = g
    /\ InPublish = {} <=> publishMu = Free

\* The Normalization Consumer is inside its publish while an HTTP handler
\* waits for the mutex.
C28_Witness ==
    /\ nc.pc = "publishing"
    /\ \E r \in Requests : req[r].pc = "lock"

\* ------------------------------------------------------------------ C29
\* The messages of queue q whose handler is running.
InHandler(q) == {t \in Tags : hist[t].q = q /\ hist[t].invoked > hist[t].returned}

\* The messages of queue q delivered to the loop and not yet settled.
Unsettled(q) == {t \in Tags : hist[t].q = q /\ hist[t].delivered >= 1 /\ hist[t].settle = "open"}

OneAtATime ==
    \A q \in {"raw", "norm"} :
        /\ Cardinality(InHandler(q)) <= 1
        /\ Cardinality(Unsettled(q)) <= 1
        /\ InHandler(q) \subseteq Unsettled(q)

\* A step that hands message t to its loop: t is the oldest ready message of
\* its queue, and every message of the queue delivered before has had its
\* handler return and is acked or nacked.
TakesInOrder ==
    \A t \in Tags :
        hist'[t].delivered > hist[t].delivered =>
            /\ hist[t].q = "raw" => rawQ # <<>> /\ Head(rawQ).tag = t /\ rawQ' = Tail(rawQ)
            /\ hist[t].q = "norm" => normQ # <<>> /\ Head(normQ).tag = t /\ normQ' = Tail(normQ)
            /\ \A u \in Tags \ {t} :
                  (hist[u].q = hist[t].q /\ hist[u].delivered >= 1) =>
                      /\ hist[u].settle \in {"ack", "nack"}
                      /\ hist[u].returned = hist[u].invoked

\* A step that adds a message to a queue adds it behind the ready ones.
PublishesAtTail ==
    /\ Len(rawQ') > Len(rawQ) => SubSeq(rawQ', 1, Len(rawQ)) = rawQ
    /\ Len(normQ') > Len(normQ) => SubSeq(normQ', 1, Len(normQ)) = normQ

\* C29: for each queue at most one handler invocation is in progress at any
\* time; the next delivery is taken only after the previous handler returned
\* and its delivery was acked or nacked; the messages of a queue are handled
\* in the order the queue holds them.
C29_OneHandlerInOrder ==
    /\ []OneAtATime
    /\ [][TakesInOrder /\ PublishesAtTail]_vars

\* The Normalization Consumer handles the second raw message, the first one
\* handled and acked, while the Delivery Consumer is in its own handler.
C29_Witness ==
    /\ \E t, u \in Tags :
          /\ t # u
          /\ hist[t].q = "raw" /\ hist[t].settle = "ack" /\ hist[t].returned = 1
          /\ hist[u].q = "raw" /\ u \in InHandler("raw")
    /\ InHandler("norm") # {}

\* ------------------------------------------------------------------ C30
\* A consumer loop is not held up by anything but its own handler: with a
\* delivery ready it can take it, a call it waits in can return, and a handler
\* that returned can have its delivery settled.
NormalizationConsumerFree ==
    /\ (env.mqUp /\ ReadyForNext(nc, rawUnacked) /\ rawQ # <<>>) =>
           ENABLED (ConsumeRawHandle \/ ConsumeRawPoison)
    /\ nc.pc = "fetch" => ENABLED NormalizeFetchFiles
    /\ nc.pc = "publishing" => ENABLED PublishNormDone
    /\ nc.pc = "handled" => ENABLED ConsumeRawAck

DeliveryConsumerFree ==
    /\ (env.mqUp /\ ReadyForNext(dc, normUnacked) /\ normQ # <<>>) =>
           ENABLED (ConsumeNormHandle \/ ConsumeNormPoison)
    /\ dc.pc = "post" => ENABLED DeliverPost
    /\ dc.pc = "handled" => ENABLED ConsumeNormAck

HttpFree ==
    \A r \in Requests :
        /\ (req[r].pc = "idle" /\ \A q \in 1..(r - 1) : req[q].pc # "idle") =>
               ENABLED (\E in \in PipelineRequests : WebhookHandlerStart(r, in))
        /\ req[r].pc = "publishing" => ENABLED PublishRawDone(r)

\* C30 as stated: HTTP request handling, the Normalization Consumer and the
\* Delivery Consumer are never blocked by one another: whatever the other
\* two are doing (waiting for the sink, for the provider, or inside a
\* publish), an HTTP handler at its publish can go on unless another HTTP
\* handler is publishing, and the Normalization Consumer at its publish can
\* go on.
C30_IndependentProgress ==
    /\ HttpFree
    /\ NormalizationConsumerFree
    /\ DeliveryConsumerFree
    /\ \A r \in Requests :
          (req[r].pc = "lock" /\ publishMu[1] # "http") => ENABLED PublishRawLock(r)
    /\ nc.pc = "lock" => ENABLED PublishNormLock

\* C30: the three make progress independently, except at the publish mutex:
\* a goroutine about to publish waits while another one (an HTTP handler or
\* the Normalization Consumer) is inside its publish, and for nothing else;
\* a slow sink or a slow provider holds up nobody but its own caller, and the
\* Delivery Consumer is held up by nobody.
C30_IndependentExceptPublish ==
    /\ HttpFree
    /\ NormalizationConsumerFree
    /\ DeliveryConsumerFree
    /\ \A r \in Requests :
          req[r].pc = "lock" => (ENABLED PublishRawLock(r) \/ InPublish # {})
    /\ nc.pc = "lock" => (ENABLED PublishNormLock \/ InPublish # {})

\* The Delivery Consumer waits for the sink while the Normalization Consumer
\* is about to publish the next event and can.
C30_Witness ==
    /\ dc.pc = "post"
    /\ nc.pc = "lock"
    /\ ENABLED PublishNormLock

\* ------------------------------------------------------------------ C31
\* C31: verifyWebhookSignature returns true if and only if the signature,
\* one leading "sha256=" stripped when present, is the lowercase hex
\* HMAC-SHA256 of the payload under the secret: the prefixed and the bare
\* form of the right digest are accepted, every other value is rejected.
C31_SignatureAcceptedIffDigest ==
    call.fn = "verifyWebhookSignature" =>
        (call.out <=>
            call.signature \in {HexHmac(call.payload, call.secret),
                                Sha256Prefix \o HexHmac(call.payload, call.secret)})

\* The bare hex form of a digest that has a letter in it was accepted.
C31_Witness ==
    /\ call.fn = "verifyWebhookSignature"
    /\ call.signature = HexHmac(call.payload, call.secret)
    /\ UpperHex(call.signature) # call.signature
    /\ call.out

\* ------------------------------------------------------------------ C32
\* The table of the statement: created -> opened, updated -> (updated,
\* synchronize), fulfilled and rejected -> closed, any other key -> unknown.
BitbucketTable(key) ==
    IF key = <<"pullrequest:", "created">> THEN <<"opened", "opened">>
    ELSE IF key = <<"pullrequest:", "updated">> THEN <<"updated", "synchronize">>
    ELSE IF key = <<"pullrequest:", "fulfilled">> THEN <<"closed", "closed">>
    ELSE IF key = <<"pullrequest:", "rejected">> THEN <<"closed", "closed">>
    ELSE <<"unknown", "unknown">>

\* C32: the Bitbucket adapter maps the event key by a static total table
\* (created -> pull_request.opened / opened; updated -> pull_request.updated /
\* synchronize; fulfilled and rejected -> pull_request.closed / closed; every
\* other key -> pull_request.unknown / unknown); the mapping gives a pair for
\* every key, the event NormalizeEvent builds carries that pair, and the
\* merge and decline keys map to no enrichable action: their event has no
\* files.
C32_BitbucketKeyTable ==
    /\ call.fn = "mapBitbucketEventKey" =>
          /\ call.out.eventType = <<"pull_request.", BitbucketTable(call.key)[1]>>
          /\ call.out.action = BitbucketTable(call.key)[2]
          /\ call.key \in {KeyFulfilled, KeyRejected} =>
                 call.out.action \notin {"opened", "synchronize", "reopened"}
    /\ (call.fn = "NormalizeEvent" /\ call.platform = PlatformBitbucket /\ ~call.out.err) =>
          /\ call.out.event.EventType = <<"pull_request.", BitbucketTable(call.eventType)[1]>>
          /\ call.out.event.Action = BitbucketTable(call.eventType)[2]
          /\ call.eventType \in {KeyFulfilled, KeyRejected} => call.out.event.Files = <<>>

\* The key of a merged pull request was mapped to closed.
C32_Witness ==
    /\ call.fn = "mapBitbucketEventKey"
    /\ call.key = KeyFulfilled
    /\ call.out.action = "closed"

\* ------------------------------------------------------------------ C33
\* C33: every RawWebhookMessage the gateway publishes has platform github or
\* bitbucket, never unknown, and its event type is the value of that
\* platform's own header (X-GitHub-Event for github, X-Event-Key for
\* bitbucket, which is selected only when X-GitHub-Event is absent); a
\* request with neither header, or whose selected header is no pull-request
\* event, publishes nothing.
C33_PublishedPlatformAndType ==
    \A r \in Requests :
        LET in == req[r].in
            m == hist[RawTag(r)].bytes
        IN /\ Present(RawTag(r)) =>
                 /\ m.platform \in {PlatformGitHub, PlatformBitbucket}
                 /\ m.platform = PlatformGitHub =>
                        in.ghEvent # Empty /\ m.event_type = in.ghEvent
                 /\ m.platform = PlatformBitbucket =>
                        in.ghEvent = Empty /\ in.bbKey # Empty /\ m.event_type = in.bbKey
                 /\ PullRequestEventType(m.event_type)
           /\ (req[r].pc # "idle" /\ in.ghEvent = Empty /\ in.bbKey = Empty) =>
                 PublishedNothing(r)
           /\ (req[r].pc # "idle" /\ in.ghEvent # Empty /\ ~PullRequestEventType(in.ghEvent)) =>
                 PublishedNothing(r)
           /\ (req[r].pc # "idle" /\ in.ghEvent = Empty /\ ~PullRequestEventType(in.bbKey)) =>
                 PublishedNothing(r)

\* A request with both provider headers set was published as a GitHub
\* pull_request event.
C33_Witness ==
    /\ Present(RawTag(1))
    /\ req[1].in.ghEvent = EvPullRequest
    /\ req[1].in.bbKey = KeyCreated
    /\ hist[RawTag(1)].bytes.platform = PlatformGitHub
    /\ hist[RawTag(1)].bytes.event_type = EvPullRequest

\* ------------------------------------------------------------------ C34
\* Where message t is in queue q (1 is the head).
IndexOf(q, t) == CHOOSE i \in DOMAIN q : q[i].tag = t

\* How far the webhook of request r has come downstream of the gateway:
\* 0 not on the raw queue yet; below 10 ready on the raw queue, the head
\* highest; 10 in the handler of the Normalization Consumer; below 20 its
\* normalized event ready on the normalized queue; 20 that event in the
\* handler of the Delivery Consumer; 30 finished (the event settled, or the
\* raw message settled without an event).
Rank(r) ==
    LET raw == RawTag(r)
        norm == NormTag(RawTag(r), 1)
    IN IF ~Present(raw) THEN 0
       ELSE IF Present(norm)
            THEN IF Count(normQ, norm) = 1 THEN 20 - IndexOf(normQ, norm)
                 ELSE IF hist[norm].settle = "open" THEN 20
                 ELSE 30
       ELSE IF Count(rawQ, raw) = 1 THEN 10 - IndexOf(rawQ, raw)
       ELSE IF hist[raw].settle = "open" THEN 10
       ELSE 30

\* The raw message of request r is settled and left no normalized event: it
\* did not normalize, or its publish failed.
LeftNoEvent(r) ==
    /\ Present(RawTag(r))
    /\ hist[RawTag(r)].settle # "open"
    /\ ~Present(NormTag(RawTag(r), 1))

\* No step lets one webhook overtake another: the one further downstream
\* stays so until it is finished, unless the other one ends without an event.
NoOvertaking ==
    \A a, b \in Requests :
        Rank(a) > Rank(b) => (Rank(a)' > Rank(b)' \/ Rank(a)' = 30 \/ LeftNoEvent(b)')

\* C34: with the one consumer per queue the program starts, order is kept
\* downstream of the raw queue: of two raw messages, the one enqueued first
\* is handled first, its NormalizedEvent is enqueued on the normalized queue
\* first and is handed to the sink first, whatever the enrichment of each
\* takes.
C34_OrderPreserved == [][NoOvertaking]_vars

\* Both webhooks went through to the sink, one enriched and the other not.
C34_Witness ==
    /\ Rank(1) = 30 /\ Rank(2) = 30
    /\ hist[NormTag(RawTag(1), 1)].posts = 1
    /\ hist[NormTag(RawTag(2), 1)].posts = 1
    /\ hist[RawTag(1)].fetches # hist[RawTag(2)].fetches

\* ------------------------------------------------------------------ C35
\* C35: the provider payload is carried unchanged through the pipeline: the
\* RawPayload of every NormalizedEvent on the normalized queue, and of the
\* event the Delivery Consumer's handler is given, is byte for byte the body
\* of the HTTP request that produced it, as is the payload of the raw
\* message in between.
C35_PayloadUnchanged ==
    /\ \A r \in Requests :
          /\ Present(RawTag(r)) => PayloadIdentical(r)
          /\ \A k \in 1..(MaxCrashes + 1) :
                Present(NormTag(RawTag(r), k)) =>
                    UnmarshalEvent(hist[NormTag(RawTag(r), k)].bytes).event.RawPayload
                        = req[r].in.body
    /\ (nc.pc \in {"fetch", "lock", "publishing"} /\ nc.tag[1] = "raw") =>
          nc.event.RawPayload = req[nc.tag[2]].in.body
    /\ (dc.pc \in {"post", "handled"} /\ dc.tag[1] = "norm") =>
          dc.event.RawPayload = req[dc.tag[2]].in.body

\* The Delivery Consumer is about to POST the event of a GitHub pull request
\* opened, enriched with its files, whose RawPayload is the request's body.
C35_Witness ==
    /\ dc.pc = "post"
    /\ dc.tag[1] = "norm"
    /\ req[dc.tag[2]].in.body = BodyOpened
    /\ dc.event.RawPayload = BodyOpened
    /\ Len(dc.event.Files) = 3

\* ------------------------------------------------------------------ C36
\* The header value is the digest of the request's body under the configured
\* secret, bare or prefixed.
RightDigest(in, value) ==
    value \in {HexHmac(in.body, env.secret), Sha256Prefix \o HexHmac(in.body, env.secret)}

\* C36: a non-empty X-Hub-Signature-256 is the only signature checked: when
\* it is wrong the request is answered 401 and publishes nothing even if
\* X-Hub-Signature holds the right digest, and when it is right the request
\* is accepted whatever X-Hub-Signature holds; X-Hub-Signature decides only
\* when X-Hub-Signature-256 is absent.
C36_SignatureHeaderPrecedence ==
    \A r \in Requests :
        LET in == req[r].in
        IN (req[r].pc # "idle" /\ in.readOK /\ env.secret # Empty) =>
              /\ (in.sig256 # Empty /\ ~RightDigest(in, in.sig256)) =>
                     req[r].status = StatusUnauthorized /\ PublishedNothing(r)
              /\ (in.sig256 # Empty /\ RightDigest(in, in.sig256)) =>
                     req[r].status = StatusOK
              /\ (in.sig256 = Empty /\ in.sig # Empty) =>
                     req[r].status = IF RightDigest(in, in.sig) THEN StatusOK
                                     ELSE StatusUnauthorized
              /\ (in.sig256 = Empty /\ in.sig = Empty) => req[r].status = StatusBadRequest

\* A pull-request webhook with a wrong X-Hub-Signature-256 and the right
\* digest in X-Hub-Signature was answered 401 and nothing was published.
C36_Witness ==
    /\ req[1].pc = "done"
    /\ env.secret # Empty /\ env.mqUp
    /\ req[1].in.readOK
    /\ req[1].in.ghEvent = EvPullRequest
    /\ req[1].in.sig256 = BadSig
    /\ RightDigest(req[1].in, req[1].in.sig)
    /\ req[1].status = StatusUnauthorized
    /\ PublishedNothing(1)

\* ------------------------------------------------------------------ C37
\* The mutex is held only by a goroutine that is inside its publish call.
HeldOnlyInPublish == publishMu # Free => publishMu \in InPublish

\* A goroutine that leaves its publish call, the publish accepted or not,
\* leaves the mutex free.
ReleasedOnReturn ==
    /\ \A r \in Requests :
          (req[r].pc = "publishing" /\ req'[r].pc # "publishing") => publishMu' = Free
    /\ (nc.pc = "publishing" /\ nc'.pc # "publishing") => publishMu' = Free

\* C37: the publish lock is released on every exit path of PublishRawEvent
\* and PublishNormalizedEvent and is held only during the publish call, so
\* that, each publish call returning, every caller waiting for the lock
\* eventually acquires it.
C37_LockReleasedAndAcquired ==
    /\ []HeldOnlyInPublish
    /\ [][ReleasedOnReturn]_vars
    /\ \A r \in Requests : (req[r].pc = "lock") ~> (req[r].pc = "publishing")
    /\ (nc.pc = "lock") ~> (nc.pc = "publishing")

\* The Normalization Consumer has left a publish that failed, and an HTTP
\* handler holds the mutex after it.
C37_Witness ==
    /\ nc.pc = "handled"
    /\ nc.log = "could not publish normalized event"
    /\ req[2].pc = "publishing"
    /\ publishMu = <<"http", 2>>

\* ------------------------------------------------------------------ C38
\* The process runs: no goroutine exited it and no handler was cut off.
ProcessRuns ==
    /\ nc.pc # "exited"
    /\ dc.pc # "exited"
    /\ \A r \in Requests : req[r].pc # "aborted"

\* A consume loop has returned.
LoopReturned == nc.pc = "stopped" \/ dc.pc = "stopped"

\* The gateway takes the next request.
GatewayAnswers ==
    \A r \in Requests :
        (req[r].pc = "idle" /\ \A q \in 1..(r - 1) : req[q].pc # "idle") =>
            \E in \in PublishRequests : ENABLED WebhookHandlerStart(r, in)

\* A correctly signed webhook that arrives after a loop returned is answered 200.
AnsweredOK ==
    \A r \in Requests :
        (LoopReturned /\ req[r].pc = "idle" /\ req'[r].pc # "idle"
            /\ CorrectlySigned(req'[r].in)) =>
                req'[r].status = StatusOK /\ req'[r].pc \in {"lock", "done"}

\* A loop that returned stays returned and takes nothing from its queue.
NothingConsumed ==
    /\ nc.pc = "stopped" =>
          /\ nc' = nc
          /\ rawUnacked' = None
          /\ Len(rawQ') >= Len(rawQ)
          /\ SubSeq(rawQ', 1, Len(rawQ)) = rawQ
          /\ \A t \in Tags : hist[t].q = "raw" => hist'[t] = hist[t]
    /\ dc.pc = "stopped" =>
          /\ dc' = dc
          /\ normUnacked' = None
          /\ Len(normQ') >= Len(normQ)
          /\ SubSeq(normQ', 1, Len(normQ)) = normQ
          /\ \A t \in Tags : hist[t].q = "norm" => hist'[t] = hist[t]

\* C38: when a consumer's delivery channel closes, its loop returns and the
\* process is not terminated: the gateway goes on answering 200 to valid
\* webhooks, and no message of that queue is consumed any more.
C38_ChannelCloseStopsOnlyTheLoop ==
    /\ []ProcessRuns
    /\ [](LoopReturned => GatewayAnswers)
    /\ [][AnsweredOK]_vars
    /\ [][NothingConsumed]_vars

\* The Normalization Consumer's loop has returned; a webhook that was
\* answered 200 afterwards lies on the raw queue, never handed to a consumer.
C38_Witness ==
    /\ nc.pc = "stopped"
    /\ req[1].pc = "done" /\ hist[RawTag(1)].settle = "ack"
    /\ req[2].pc = "done" /\ req[2].status = StatusOK
    /\ Present(RawTag(2))
    /\ hist[RawTag(2)].delivered = 0
    /\ Count(rawQ, RawTag(2)) = 1

\* ------------------------------------------------------------------ C39
\* Request r is a verified Bitbucket event with a JSON body whose key starts
\* with "pullrequest:" and is none of the four keys of the table.
UnmappedPullRequestKey(r) ==
    /\ req[r].pc # "idle"
    /\ CorrectlySigned(req[r].in)
    /\ req[r].in.body.valid
    /\ req[r].in.ghEvent = Empty
    /\ HasPrefix(req[r].in.bbKey, <<"pullrequest:">>)
    /\ req[r].in.bbKey \notin {KeyCreated, KeyUpdated, KeyFulfilled, KeyRejected}

\* The event is the one the Bitbucket adapter makes of an unmapped key.
UnknownAction(event) ==
    /\ event.Platform = PlatformBitbucket
    /\ event.EventType = <<"pull_request.", "unknown">>
    /\ event.Action = "unknown"
    /\ event.Files = <<>>

\* Such a request is answered 200 and goes on to the publish; its handler in
\* the Normalization Consumer makes the event without an error and without
\* asking the provider for files; the event on the normalized queue and in
\* the Delivery Consumer is that event.
UnmappedKeyStages ==
    \A r \in Requests :
        UnmappedPullRequestKey(r) =>
            /\ req[r].status = StatusOK
            /\ req[r].pc \in {"lock", "publishing"} \/ Present(RawTag(r))
            /\ hist[RawTag(r)].fetches = 0
            /\ (nc.tag = RawTag(r) /\ nc.pc # "wait") =>
                  /\ nc.pc \in {"lock", "publishing", "handled"}
                  /\ UnknownAction(nc.event)
            /\ Present(NormTag(RawTag(r), 1)) => UnknownAction(EventOf(r))
            /\ (dc.tag = NormTag(RawTag(r), 1) /\ dc.pc # "wait") => UnknownAction(dc.event)

\* C39: a verified Bitbucket event whose key starts with "pullrequest:" and
\* is not one of the four mapped keys passes the gateway filter, is
\* normalized without error into an event with action "unknown" and no
\* files, and is published to the normalized queue and delivered to the sink.
C39_UnmappedKeyDelivered ==
    /\ []UnmappedKeyStages
    /\ \A r \in Requests : UnmappedPullRequestKey(r) ~> DeliveredOnce(r)

\* A Bitbucket comment event on a pull request went through the pipeline:
\* its event, action "unknown" and no files, was POSTed to the sink.
C39_Witness ==
    \E r \in Requests :
        /\ req[r].in = BitbucketRequest(BodyOpened, KeyComment)
        /\ DeliveredOnce(r)
        /\ UnknownAction(EventOf(r))
        /\ hist[RawTag(r)].fetches = 0

====

